---- MODULE Spec2Model ----
(***************************************************************************)
(* A model of the go-script compiler: the lexer (pkg/lexer/lexer.go,       *)
(* pkg/lexer/token.go), the parser (pkg/parser/parser.go), the generator   *)
(* (pkg/codegen/generator.go) and the build command that runs them.        *)
(*                                                                         *)
(* Source text is a TLA+ string; a byte is a one-character string.  The    *)
(* byte 0, which the lexer uses as its end-of-input sentinel, is NUL.      *)
(* A Go run-time panic (a slice expression out of range) is the flag       *)
(* `panicked` of the lexer record: the process has crashed once it is set. *)
(***************************************************************************)
EXTENDS Integers, Sequences, FiniteSets, TLC

VARIABLES source, lex, tok, parser, program, phase,
          goCode, err, outputFile, stdout, exit,
          runs, heap, tables, indentTokens, calls

\* the state of the build command: what compileFile returns, the output file,
\* the lines printed, and the exit status of the process
buildVars == <<goCode, err, outputFile, stdout, exit>>

\* two pipeline runs side by side: what each run holds, the objects the
\* constructors have allocated, and the package-level tables
runVars == <<runs, heap, tables>>

vars == <<source, lex, tok, parser, program, phase, buildVars, runVars, indentTokens, calls>>

(***************************************************************************)
(* Bounds                                                                  *)
(***************************************************************************)
\* longest input text of the lexer runs
MaxLen == 4
\* NextToken calls made after the cursor has left the input
MaxPastEOF == 3
\* longest unstructured lexeme sequence handed to the parser
MaxLexemes == 3
\* longest input of operator characters in the lexer runs
MaxOpLen == 3
\* most top-level functions of a generated program
MaxFuncs == 2
\* most statements of a generated body or branch
MaxStmts == 2
\* most fields and most methods of a generated struct
MaxFields == 2
MaxMethods == 2
\* most binary operators of a generated flat expression
MaxOperators == 2
\* most paths of an import list and most names of a from-import
MaxItems == 2
\* most pairs of a generated map literal
MaxPairs == 2
\* lines of a source whose indentation is handled
MaxLines == 3

(***************************************************************************)
(* Bytes                                                                   *)
(***************************************************************************)
NUL == "NUL"

Letters == {"a", "b", "c", "d", "e", "f", "g", "h", "i", "j", "k", "l", "m",
            "n", "o", "p", "q", "r", "s", "t", "u", "v", "w", "x", "y", "z",
            "A", "B", "C", "D", "E", "F", "G", "H", "I", "J", "K", "L", "M",
            "N", "O", "P", "Q", "R", "S", "T", "U", "V", "W", "X", "Y", "Z",
            "_"}

Digits == {"0", "1", "2", "3", "4", "5", "6", "7", "8", "9"}

\* the ASCII part of isLetter; bytes above 127 are outside the modelled alphabet
isLetter(ch) == ch \in Letters

isDigit(ch) == ch \in Digits

\* the text of the digit i
Digit(i) == SubSeq("0123456789", i + 1, i + 1)

\* s[i] of Go, i counted from 0
CharAt(s, i) == SubSeq(s, i + 1, i + 1)

\* v is evaluated once and handed to the rest of the function, K
Bind(v, K(_)) == K(v)

(***************************************************************************)
(* Lexer                                                                   *)
(***************************************************************************)
readChar(l) ==
    Bind(IF l.readPosition >= Len(l.input) THEN NUL
         ELSE CharAt(l.input, l.readPosition), LAMBDA c :
      [l EXCEPT !.ch = c,
                !.position = l.readPosition,
                !.readPosition = l.readPosition + 1,
                !.line = IF c = "\n" THEN l.line + 1 ELSE l.line,
                !.column = IF c = "\n" THEN 0 ELSE l.column + 1])

LexerNew(input) ==
    readChar([input |-> input, position |-> 0, readPosition |-> 0, ch |-> NUL,
              line |-> 1, column |-> 0, indentStack |-> <<0>>,
              panicked |-> FALSE])

peekChar(l) ==
    IF l.readPosition >= Len(l.input) THEN NUL ELSE CharAt(l.input, l.readPosition)

RECURSIVE skipWhitespace(_)
skipWhitespace(l) ==
    IF l.ch = " " \/ l.ch = "\t" \/ l.ch = "\r" THEN skipWhitespace(readChar(l))
    ELSE l

\* l.input[lo:hi] of Go: the text, and whether the slice expression panics
SliceInRange(s, lo, hi) == 0 <= lo /\ lo <= hi /\ hi <= Len(s)

Slice(s, lo, hi) == IF SliceInRange(s, lo, hi) THEN SubSeq(s, lo + 1, hi) ELSE ""

\* the lexer after evaluating l.input[lo:l.position]
AfterSlice(l, lo) ==
    IF SliceInRange(l.input, lo, l.position) THEN l ELSE [l EXCEPT !.panicked = TRUE]

\* return l.input[lo:l.position], with the lexer the scan has left
Sliced(l, lo) == [l |-> AfterSlice(l, lo), lit |-> Slice(l.input, lo, l.position)]

\* a loop that reads letters only
RECURSIVE readLetters(_)
readLetters(l) == IF isLetter(l.ch) THEN readLetters(readChar(l)) ELSE l

RECURSIVE readIdentifierLoop(_)
readIdentifierLoop(l) ==
    IF isLetter(l.ch) \/ isDigit(l.ch) THEN readIdentifierLoop(readChar(l)) ELSE l

readIdentifier(l) == Sliced(readIdentifierLoop(l), l.position)

RECURSIVE readDigits(_)
readDigits(l) == IF isDigit(l.ch) THEN readDigits(readChar(l)) ELSE l

\* the fraction of readNumber: a dot that a digit follows
readFraction(l) ==
    IF l.ch = "." /\ isDigit(peekChar(l))
    THEN [l |-> readDigits(readChar(l)), float |-> TRUE]
    ELSE [l |-> l, float |-> FALSE]

\* an exponent that takes no sign
readNoSign(l) == l

\* the optional sign of an exponent
readSign(l) == IF l.ch = "+" \/ l.ch = "-" THEN readChar(l) ELSE l

\* the exponent of readNumber
readExponent(f) ==
    IF f.l.ch = "e" \/ f.l.ch = "E"
    THEN [l |-> readDigits(readSign(readChar(f.l))), float |-> TRUE]
    ELSE f

readNumber(l) ==
    Bind(readExponent(readFraction(readDigits(l))), LAMBDA n :
    Bind(Sliced(n.l, l.position), LAMBDA s :
      [l |-> s.l, lit |-> s.lit, type |-> IF n.float THEN "FLOAT" ELSE "INT"]))

RECURSIVE readStringLoop(_, _)
readStringLoop(l, delimiter) ==
    Bind(readChar(l), LAMBDA l1 :
      IF l1.ch = delimiter \/ l1.ch = NUL THEN l1
      ELSE IF l1.ch = "\\" THEN readStringLoop(readChar(l1), delimiter)
      ELSE readStringLoop(l1, delimiter))

readString(l, delimiter) == Sliced(readStringLoop(l, delimiter), l.position + 1)

\* a loop that reads the whole line, its newline included
RECURSIVE readCommentLine(_)
readCommentLine(l) ==
    IF l.ch = NUL THEN l
    ELSE IF l.ch = "\n" THEN readChar(l)
    ELSE readCommentLine(readChar(l))

RECURSIVE readCommentLoop(_)
readCommentLoop(l) ==
    IF l.ch # "\n" /\ l.ch # NUL THEN readCommentLoop(readChar(l)) ELSE l

readComment(l) == Sliced(readCommentLoop(l), l.position)

\* the loop of handleIndentation that counts the blanks and tabs of a line
RECURSIVE countIndentation(_, _)
countIndentation(l, indentLevel) ==
    IF l.ch = "\t" THEN countIndentation(readChar(l), indentLevel + 4)
    ELSE IF l.ch = " " THEN countIndentation(readChar(l), indentLevel + 1)
    ELSE [l |-> l, indentLevel |-> indentLevel]

\* the INDENT or DEDENT token of handleIndentation
IndentationToken(l, tokenType, indentLevel) ==
    [Type |-> tokenType, Literal |-> "", Line |-> l.line,
     Column |-> l.column - indentLevel, Position |-> l.position - indentLevel]

\* a loop that unwinds the stack and reports it with one token
RECURSIVE popIndentsAtOnce(_, _, _)
popIndentsAtOnce(l, indentLevel, dedents) ==
    IF Len(l.indentStack) > 1 /\ l.indentStack[Len(l.indentStack)] > indentLevel
    THEN popIndentsAtOnce(
           [l EXCEPT !.indentStack = SubSeq(@, 1, Len(@) - 1)], indentLevel,
           <<IndentationToken(l, "DEDENT", indentLevel)>>)
    ELSE [l |-> l, tokens |-> dedents]

\* the loop of handleIndentation that pops the levels above indentLevel
RECURSIVE popIndents(_, _, _)
popIndents(l, indentLevel, dedents) ==
    IF Len(l.indentStack) > 1 /\ l.indentStack[Len(l.indentStack)] > indentLevel
    THEN popIndents(
           [l EXCEPT !.indentStack = SubSeq(@, 1, Len(@) - 1)], indentLevel,
           Append(dedents, IndentationToken(l, "DEDENT", indentLevel)))
    ELSE [l |-> l, tokens |-> dedents]

\* handleIndentation after the count
compareIndentation(l, indentLevel) ==
    IF l.ch = "\n" \/ l.ch = "#" THEN [l |-> l, tokens |-> <<>>]
    ELSE IF indentLevel > l.indentStack[Len(l.indentStack)]
    THEN [l |-> [l EXCEPT !.indentStack = Append(@, indentLevel)],
          tokens |-> <<IndentationToken(l, "INDENT", indentLevel)>>]
    ELSE IF indentLevel < l.indentStack[Len(l.indentStack)]
    THEN popIndents(l, indentLevel, <<>>)
    ELSE [l |-> l, tokens |-> <<>>]

\* Lexer.handleIndentation: the lexer after the call and the tokens returned
handleIndentation(l) ==
    Bind(countIndentation(l, 0), LAMBDA c : compareIndentation(c.l, c.indentLevel))

Keywords ==
    [and |-> "AND", or |-> "OR", not |-> "NOT", if |-> "IF", elif |-> "ELIF",
     else |-> "ELSE", for |-> "FOR", while |-> "WHILE", func |-> "FUNC",
     return |-> "RETURN", import |-> "IMPORT", from |-> "FROM", struct |-> "STRUCT",
     interface |-> "INTERFACE", var |-> "VAR", const |-> "CONST", true |-> "TRUE",
     false |-> "FALSE", nil |-> "NIL", in |-> "IN", range |-> "RANGE",
     break |-> "BREAK", continue |-> "CONTINUE", defer |-> "DEFER", go |-> "GO",
     chan |-> "CHAN", select |-> "SELECT", case |-> "CASE", default |-> "DEFAULT",
     switch |-> "SWITCH", type |-> "TYPE", package |-> "PACKAGE"]

LookupIdent(ident) ==
    IF ident \in DOMAIN Keywords THEN Keywords[ident] ELSE "IDENT"

Token(type, literal, line, column, position) ==
    [Type |-> type, Literal |-> literal, Line |-> line, Column |-> column,
     Position |-> position]

newToken(tokenType, ch, line, column, position) ==
    Token(tokenType, ch, line, column, position)

\* a one-character token at the cursor, then the closing l.readChar()
OneChar(l, tokenType) ==
    [l |-> readChar(l),
     tok |-> newToken(tokenType, l.ch, l.line, l.column, l.position)]

\* a two-character operator: ch := l.ch; l.readChar(); the token; l.readChar()
TwoChar(l, tokenType) ==
    Bind(readChar(l), LAMBDA l1 :
      [l |-> readChar(l1),
       tok |-> Token(tokenType, l.ch \o l1.ch, l1.line, l1.column - 1,
                     l1.position - 1)])

\* the two-character operators of NextToken and their token kinds
TwoCharOps ==
    "==" :> "EQ" @@ "+=" :> "PLUS_EQ" @@ "++" :> "INCREMENT" @@ "-=" :> "MINUS_EQ"
    @@ "--" :> "DECREMENT" @@ "->" :> "ARROW" @@ "*=" :> "MULT_EQ" @@ "**" :> "POWER"
    @@ "/=" :> "DIV_EQ" @@ "%=" :> "MOD_EQ" @@ "!=" :> "NOT_EQ" @@ "<=" :> "LT_EQ"
    @@ "<<" :> "LEFT_SHIFT" @@ "<-" :> "CHANNEL" @@ ">=" :> "GT_EQ"
    @@ ">>" :> "RIGHT_SHIFT" @@ "&^" :> "BIT_CLEAR" @@ ":=" :> "WALRUS"

\* the token kind of each character that is a token by itself
OneCharOps ==
    "=" :> "ASSIGN" @@ "+" :> "PLUS" @@ "-" :> "MINUS" @@ "*" :> "MULTIPLY"
    @@ "/" :> "DIVIDE" @@ "%" :> "MODULO" @@ "!" :> "ILLEGAL" @@ "<" :> "LT"
    @@ ">" :> "GT" @@ "&" :> "BITWISE_AND" @@ "|" :> "BITWISE_OR"
    @@ "^" :> "BITWISE_XOR" @@ ":" :> "COLON" @@ ";" :> "SEMICOLON" @@ "," :> "COMMA"
    @@ "." :> "DOT" @@ "(" :> "LPAREN" @@ ")" :> "RPAREN" @@ "[" :> "LBRACKET"
    @@ "]" :> "RBRACKET" @@ "{" :> "LBRACE" @@ "}" :> "RBRACE" @@ "\n" :> "NEWLINE"

\* a switch that looks at the current character only
OperatorTokenOfOneChar(l) == OneChar(l, OneCharOps[l.ch])

\* the switch of NextToken on an operator or punctuation character
OperatorToken(l) ==
    Bind(l.ch \o peekChar(l), LAMBDA two :
      IF two \in DOMAIN TwoCharOps THEN TwoChar(l, TwoCharOps[two])
      ELSE OneChar(l, OneCharOps[l.ch]))

\* a token whose line, column and position are read after the scan
ScannedToken(r, tokenType, back) ==
    [l |-> r.l,
     tok |-> Token(tokenType, r.lit, r.l.line, r.l.column - back, r.l.position - back)]

\* a quoted literal, then the closing l.readChar()
QuotedToken(l, tokenType) ==
    Bind(ScannedToken(readString(l, l.ch), tokenType, 0), LAMBDA r :
      [l |-> readChar(r.l), tok |-> r.tok])

CommentToken(l) == ScannedToken(readComment(l), "COMMENT", 0)

IdentToken(l) ==
    Bind(readIdentifier(l), LAMBDA r :
      ScannedToken(r, LookupIdent(r.lit), Len(r.lit)))

NumberToken(l) ==
    Bind(readNumber(l), LAMBDA r : ScannedToken(r, r.type, Len(r.lit)))

\* the end-of-input token made as the one-byte tokens are: its text is the byte 0
EOFTokenOfByte(l) == OneChar(l, "EOF")

\* case 0 of NextToken: the end-of-input token has empty text
EOFToken(l) ==
    [l |-> readChar(l), tok |-> Token("EOF", "", l.line, l.column, l.position)]

NextTokenAt(l) ==
    CASE l.ch \in DOMAIN OneCharOps -> OperatorToken(l)
      [] l.ch = "\"" -> QuotedToken(l, "STRING")
      [] l.ch = "'" -> QuotedToken(l, "CHAR")
      [] l.ch = "#" -> CommentToken(l)
      [] l.ch = NUL -> EOFToken(l)
      [] isLetter(l.ch) -> IdentToken(l)
      [] isDigit(l.ch) -> NumberToken(l)
      [] OTHER -> OneChar(l, "ILLEGAL")

\* Lexer.NextToken: the lexer after the call and the token it returns
NextToken(l) == NextTokenAt(skipWhitespace(l))

(***************************************************************************)
(* AST nodes.  A Go nil (pointer, slice or interface) is Nil; a nil        *)
(* pointer stored in an interface value is a TypedNil, which Go's          *)
(* `x != nil` takes for a value.                                           *)
(***************************************************************************)
Nil == [kind |-> "nil"]

TypedNil(type) == [kind |-> "typednil", type |-> type]

isNil(n) == n.kind = "nil"

\* a pointer result converted to the interface type of a return or a field
ToInterface(n, type) == IF isNil(n) THEN TypedNil(type) ELSE n

(***************************************************************************)
(* Parser: state and token helpers                                         *)
(***************************************************************************)
LOWEST == 1
EQUALS == 2
LESSGREATER == 3
SUM == 4
PRODUCT == 5
PREFIX == 6
CALL == 7
INDEX == 8

precedences ==
    [t \in {"EQ", "NOT_EQ", "LT", "GT", "LT_EQ", "GT_EQ", "PLUS", "MINUS", "DIVIDE",
            "MULTIPLY", "MODULO", "POWER", "LPAREN", "LBRACKET", "DOT"} |->
       CASE t \in {"EQ", "NOT_EQ"} -> EQUALS
         [] t \in {"LT", "GT", "LT_EQ", "GT_EQ"} -> LESSGREATER
         [] t \in {"PLUS", "MINUS"} -> SUM
         [] t \in {"DIVIDE", "MULTIPLY", "MODULO", "POWER"} -> PRODUCT
         [] t = "LPAREN" -> CALL
         [] t \in {"LBRACKET", "DOT"} -> INDEX]

\* the token kinds New registers a prefix parse function for
prefixParseFns ==
    {"IDENT", "INT", "FLOAT", "STRING", "TRUE", "FALSE", "NIL", "MINUS", "NOT",
     "LPAREN", "LBRACKET", "LBRACE"}

\* the token kinds New registers an infix parse function for
infixParseFns ==
    {"PLUS", "MINUS", "DIVIDE", "MULTIPLY", "MODULO", "POWER", "EQ", "NOT_EQ", "LT",
     "GT", "LT_EQ", "GT_EQ", "AND", "OR", "LPAREN", "LBRACKET", "DOT"}

\* A method call of the front end on a lexer or a parser.  The parser's calls
\* of NextToken go through this one recursive operator, which keeps TLC's
\* coverage bookkeeping from unfolding the lexer at every one of them.
RECURSIVE Call(_, _)

\* p.l.NextToken().  After a panic of the lexer the parser is not running any
\* more: the model lets it see end-of-input and keeps the flag.
PullToken(l) ==
    IF l.panicked THEN [l |-> l, tok |-> Token("EOF", "", l.line, l.column, l.position)]
    ELSE Call("NextToken", l)

\* a loop that drops the newlines as it drops the comments
RECURSIVE skipCommentsAndNewlines(_)
skipCommentsAndNewlines(l) ==
    Bind(PullToken(l), LAMBDA r :
      IF r.tok.Type \in {"COMMENT", "NEWLINE"} THEN skipCommentsAndNewlines(r.l) ELSE r)

\* p.peekToken = p.l.NextToken(), again while the token is a comment
RECURSIVE skipComments(_)
skipComments(l) ==
    Bind(PullToken(l), LAMBDA r :
      IF r.tok.Type = "COMMENT" THEN skipComments(r.l) ELSE r)

nextToken(p) ==
    Bind(skipComments(p.l), LAMBDA r :
      [p EXCEPT !.curToken = p.peekToken, !.peekToken = r.tok, !.l = r.l])

ParserNew(l) ==
    nextToken(nextToken([l |-> l,
                         curToken |-> Token("ILLEGAL", "", 0, 0, 0),
                         peekToken |-> Token("ILLEGAL", "", 0, 0, 0),
                         errors |-> <<>>]))

addError(p, msg) == [p EXCEPT !.errors = Append(@, msg)]

peekError(p, t) ==
    addError(p, "expected next token to be " \o t \o ", got " \o p.peekToken.Type
                \o " instead")

noPrefixParseFnError(p, t) ==
    addError(p, "no prefix parse function for " \o t \o " found")

curTokenIs(p, t) == p.curToken.Type = t

peekTokenIs(p, t) == p.peekToken.Type = t

expectPeek(p, t) ==
    IF peekTokenIs(p, t) THEN [p |-> nextToken(p), ok |-> TRUE]
    ELSE [p |-> peekError(p, t), ok |-> FALSE]

peekPrecedence(p) ==
    IF p.peekToken.Type \in DOMAIN precedences THEN precedences[p.peekToken.Type]
    ELSE LOWEST

curPrecedence(p) ==
    IF p.curToken.Type \in DOMAIN precedences THEN precedences[p.curToken.Type]
    ELSE LOWEST

\* for p.peekTokenIs(lexer.NEWLINE) { p.nextToken() }
RECURSIVE skipPeekNewlines(_)
skipPeekNewlines(p) ==
    IF peekTokenIs(p, "NEWLINE") THEN skipPeekNewlines(nextToken(p)) ELSE p

\* for p.curTokenIs(lexer.NEWLINE) { p.nextToken() }
RECURSIVE skipCurNewlines(_)
skipCurNewlines(p) ==
    IF curTokenIs(p, "NEWLINE") THEN skipCurNewlines(nextToken(p)) ELSE p

\* a parse function's result: the parser after it, and the node it returns
Result(p, node) == [p |-> p, node |-> node]

(***************************************************************************)
(* Number conversions of strconv, on the texts readNumber produces         *)
(***************************************************************************)
DigitValue(c) ==
    CASE c = "0" -> 0 [] c = "1" -> 1 [] c = "2" -> 2 [] c = "3" -> 3 [] c = "4" -> 4
      [] c = "5" -> 5 [] c = "6" -> 6 [] c = "7" -> 7 [] c = "8" -> 8 [] c = "9" -> 9

\* the value of the digit text s in the given base (every digit below base)
RECURSIVE DigitsValue(_, _)
DigitsValue(s, base) ==
    IF s = "" THEN 0
    ELSE DigitsValue(SubSeq(s, 1, Len(s) - 1), base) * base
         + DigitValue(CharAt(s, Len(s) - 1))

\* strconv.Atoi on a text of decimal digits
Atoi(s) == DigitsValue(s, 10)

\* strconv.ParseInt(s, 0, 64) on a text of decimal digits: base 0 reads a
\* leading "0" as the octal prefix, and then 8 and 9 are no digits
ParseInt(s) ==
    IF Len(s) > 1 /\ CharAt(s, 0) = "0"
    THEN IF \E i \in 2..Len(s) : SubSeq(s, i, i) \in {"8", "9"}
         THEN [err |-> TRUE, value |-> 0]
         ELSE [err |-> FALSE, value |-> DigitsValue(SubSeq(s, 2, Len(s)), 8)]
    ELSE [err |-> FALSE, value |-> DigitsValue(s, 10)]

\* strconv.ParseFloat(s, 64) on the texts readNumber tags FLOAT: an exponent
\* mark must be followed by at least one digit
ParseFloat(s) ==
    [err |-> /\ \E i \in 1..Len(s) : SubSeq(s, i, i) \in {"e", "E"}
             /\ ~isDigit(CharAt(s, Len(s) - 1)),
     value |-> s]

(***************************************************************************)
(* Parser: expressions                                                     *)
(***************************************************************************)
RECURSIVE parseExpression(_, _)
RECURSIVE parseExpressionLoop(_, _, _)
RECURSIVE parseExpressionList(_, _)
RECURSIVE parseExpressionListRest(_, _)
RECURSIVE parseMapLiteralPairs(_, _)

\* a node wrapped round the node of a parse result
Wrap(r, Node(_)) == Result(r.p, Node(r.node))

\* the node when the expected token has come, nil when it has not
IfOk(e, node) == Result(e.p, IF e.ok THEN node ELSE Nil)

parseIdentifier(p) == Result(p, [kind |-> "Identifier", Value |-> p.curToken.Literal])

parseIntegerLiteral(p) ==
    Bind(ParseInt(p.curToken.Literal), LAMBDA r :
      IF r.err
      THEN Result(addError(p, "could not parse \"" \o p.curToken.Literal
                              \o "\" as integer"), Nil)
      ELSE Result(p, [kind |-> "Literal", Type |-> "int", Value |-> r.value]))

parseFloatLiteral(p) ==
    Bind(ParseFloat(p.curToken.Literal), LAMBDA r :
      IF r.err
      THEN Result(addError(p, "could not parse \"" \o p.curToken.Literal
                              \o "\" as float"), Nil)
      ELSE Result(p, [kind |-> "Literal", Type |-> "float", Value |-> r.value]))

parseStringLiteral(p) ==
    Result(p, [kind |-> "Literal", Type |-> "string", Value |-> p.curToken.Literal])

parseBooleanLiteral(p) ==
    Result(p, [kind |-> "Literal", Type |-> "bool", Value |-> curTokenIs(p, "TRUE")])

parseNilLiteral(p) == Result(p, [kind |-> "Literal", Type |-> "nil", Value |-> Nil])

parsePrefixExpression(p) ==
    Wrap(parseExpression(nextToken(p), PREFIX), LAMBDA right :
      [kind |-> "UnaryExpr", Operator |-> p.curToken.Literal, Operand |-> right])

parseInfixExpression(p, left) ==
    Wrap(parseExpression(nextToken(p), curPrecedence(p)), LAMBDA right :
      [kind |-> "BinaryExpr", Left |-> left, Operator |-> p.curToken.Literal,
       Right |-> right])

parseGroupedExpression(p) ==
    Bind(parseExpression(nextToken(p), LOWEST), LAMBDA r :
      IfOk(expectPeek(r.p, "RPAREN"), r.node))

\* the loop of parseExpressionList over the commas
parseExpressionListRest(p, args) ==
    IF peekTokenIs(p, "COMMA")
    THEN Bind(parseExpression(nextToken(nextToken(p)), LOWEST), LAMBDA r :
           parseExpressionListRest(r.p, Append(args, r.node)))
    ELSE Result(p, args)

parseExpressionList(p, end) ==
    IF peekTokenIs(p, end) THEN Result(nextToken(p), <<>>)
    ELSE Bind(parseExpression(nextToken(p), LOWEST), LAMBDA first :
         Bind(parseExpressionListRest(first.p, <<first.node>>), LAMBDA rest :
         Bind(expectPeek(rest.p, end), LAMBDA e :
           Result(e.p, IF e.ok THEN rest.node ELSE <<>>))))

parseArrayLiteral(p) ==
    Wrap(parseExpressionList(p, "RBRACKET"), LAMBDA elements :
      [kind |-> "ArrayLiteral", Elements |-> elements])

\* the loop of parseMapLiteral; ok is FALSE when a colon is missing
parseMapLiteralPairs(p, pairs) ==
    Bind(parseExpression(p, LOWEST), LAMBDA key :
    Bind(expectPeek(key.p, "COLON"), LAMBDA e :
      IF ~e.ok THEN [p |-> e.p, ok |-> FALSE, pairs |-> pairs]
      ELSE
    Bind(parseExpression(nextToken(e.p), LOWEST), LAMBDA value :
    Bind(Append(pairs, [Key |-> key.node, Value |-> value.node]), LAMBDA more :
      IF ~peekTokenIs(value.p, "COMMA")
      THEN [p |-> value.p, ok |-> TRUE, pairs |-> more]
      ELSE parseMapLiteralPairs(nextToken(nextToken(value.p)), more)))))

parseMapLiteral(p) ==
    IF peekTokenIs(p, "RBRACE")
    THEN Result(nextToken(p), [kind |-> "MapLiteral", Pairs |-> <<>>])
    ELSE Bind(parseMapLiteralPairs(nextToken(p), <<>>), LAMBDA r :
           IF ~r.ok THEN Result(r.p, Nil)
           ELSE IfOk(expectPeek(r.p, "RBRACE"),
                     [kind |-> "MapLiteral", Pairs |-> r.pairs]))

parseCallExpression(p, fn) ==
    Wrap(parseExpressionList(p, "RPAREN"), LAMBDA arguments :
      [kind |-> "CallExpr", Function |-> fn, Arguments |-> arguments])

parseIndexExpression(p, left) ==
    Bind(parseExpression(nextToken(p), LOWEST), LAMBDA r :
      IfOk(expectPeek(r.p, "RBRACKET"),
           [kind |-> "IndexExpr", Object |-> left, Index |-> r.node]))

parseSelectorExpression(p, left) ==
    Bind(expectPeek(p, "IDENT"), LAMBDA e :
      IfOk(e, [kind |-> "SelectorExpr", Object |-> left,
               Selector |-> e.p.curToken.Literal]))

\* p.prefixParseFns[p.curToken.Type]()
prefixParse(p, t) ==
    CASE t = "IDENT" -> parseIdentifier(p)
      [] t = "INT" -> parseIntegerLiteral(p)
      [] t = "FLOAT" -> parseFloatLiteral(p)
      [] t = "STRING" -> parseStringLiteral(p)
      [] t \in {"TRUE", "FALSE"} -> parseBooleanLiteral(p)
      [] t = "NIL" -> parseNilLiteral(p)
      [] t \in {"MINUS", "NOT"} -> parsePrefixExpression(p)
      [] t = "LPAREN" -> parseGroupedExpression(p)
      [] t = "LBRACKET" -> parseArrayLiteral(p)
      [] t = "LBRACE" -> parseMapLiteral(p)

\* p.infixParseFns[p.curToken.Type](left)
infixParse(p, t, left) ==
    CASE t = "LPAREN" -> parseCallExpression(p, left)
      [] t = "LBRACKET" -> parseIndexExpression(p, left)
      [] t = "DOT" -> parseSelectorExpression(p, left)
      [] OTHER -> parseInfixExpression(p, left)

\* the loop condition that also goes on at equal precedence, which would
\* group operators of equal precedence right to left
continuesAtEqualPrecedence(p, precedence) ==
    /\ p.peekToken.Type \notin {"NEWLINE", "EOF", "INDENT", "DEDENT"}
    /\ precedence <= peekPrecedence(p)

\* whether the loop of parseExpression goes round once more
continuesExpression(p, precedence) ==
    /\ p.peekToken.Type \notin {"NEWLINE", "EOF", "INDENT", "DEDENT"}
    /\ precedence < peekPrecedence(p)

parseExpressionLoop(p, leftExp, precedence) ==
    IF continuesExpression(p, precedence) /\ p.peekToken.Type \in infixParseFns
    THEN Bind(infixParse(nextToken(p), p.peekToken.Type, leftExp), LAMBDA r :
           parseExpressionLoop(r.p, r.node, precedence))
    ELSE Result(p, leftExp)

parseExpression(p, precedence) ==
    IF p.curToken.Type \notin prefixParseFns
    THEN Result(noPrefixParseFnError(p, p.curToken.Type), Nil)
    ELSE Bind(prefixParse(p, p.curToken.Type), LAMBDA left :
           parseExpressionLoop(left.p, left.node, precedence))

(***************************************************************************)
(* Parser: types, declarations and statements                              *)
(***************************************************************************)
RECURSIVE parseTypeSpec(_)
RECURSIVE parseFunctionParametersRest(_, _)
RECURSIVE parseStructBody(_, _, _, _)
RECURSIVE parseStatement(_)
RECURSIVE parseFunctionDeclaration(_)
RECURSIVE parseIfStatement(_)
RECURSIVE parseForStatement(_)
RECURSIVE parseBlockStatements(_, _)

TypeSpec(name) ==
    [kind |-> "TypeSpec", Name |-> name, IsPointer |-> FALSE, IsSlice |-> FALSE,
     IsArray |-> FALSE, ArraySize |-> 0, KeyType |-> Nil, ValueType |-> Nil]

\* the element type after the closing bracket of a slice or an array
parseElementType(p, typeSpec) ==
    Wrap(parseTypeSpec(nextToken(p)), LAMBDA v : [typeSpec EXCEPT !.ValueType = v])

\* parseTypeSpec after the opening bracket: a slice or a sized array
parseBracketType(p, typeSpec) ==
    IF curTokenIs(p, "RBRACKET")
    THEN parseElementType(p, [typeSpec EXCEPT !.IsSlice = TRUE])
    ELSE Bind(expectPeek(p, "RBRACKET"), LAMBDA e :
           IF ~e.ok THEN Result(e.p, Nil)
           ELSE parseElementType(e.p,
                  [typeSpec EXCEPT !.IsArray = TRUE,
                                   !.ArraySize = IF curTokenIs(p, "INT")
                                                 THEN Atoi(p.curToken.Literal)
                                                 ELSE 0]))

\* parseTypeSpec on the identifier map: map[K]V
parseMapType(p, typeSpec) ==
    Bind(expectPeek(p, "LBRACKET"), LAMBDA e1 :
      IF ~e1.ok THEN Result(e1.p, Nil)
      ELSE
    Bind(parseTypeSpec(nextToken(e1.p)), LAMBDA k :
    Bind(expectPeek(k.p, "RBRACKET"), LAMBDA e2 :
      IF ~e2.ok THEN Result(e2.p, Nil)
      ELSE Wrap(parseTypeSpec(nextToken(e2.p)), LAMBDA v :
             [typeSpec EXCEPT !.KeyType = k.node, !.ValueType = v]))))

\* parseTypeSpec after the optional star
parseTypeSpecAt(p, typeSpec) ==
    IF curTokenIs(p, "LBRACKET") THEN parseBracketType(nextToken(p), typeSpec)
    ELSE IF curTokenIs(p, "IDENT") /\ p.curToken.Literal = "map"
    THEN parseMapType(p, typeSpec)
    ELSE Result(p, [typeSpec EXCEPT !.Name = p.curToken.Literal])

parseTypeSpec(p) ==
    IF curTokenIs(p, "MULTIPLY")
    THEN parseTypeSpecAt(nextToken(p), [TypeSpec("") EXCEPT !.IsPointer = TRUE])
    ELSE parseTypeSpecAt(p, TypeSpec(""))

\* param := &ast.Parameter{Name: ...}; the type when an identifier follows
parseParameter(p) ==
    IF peekTokenIs(p, "IDENT")
    THEN Wrap(parseTypeSpec(nextToken(p)), LAMBDA t :
           [kind |-> "Parameter", Name |-> p.curToken.Literal, Type |-> t])
    ELSE Result(p, [kind |-> "Parameter", Name |-> p.curToken.Literal, Type |-> Nil])

parseFunctionParametersRest(p, params) ==
    IF peekTokenIs(p, "COMMA")
    THEN Bind(parseParameter(nextToken(nextToken(p))), LAMBDA r :
           parseFunctionParametersRest(r.p, Append(params, r.node)))
    ELSE Result(p, params)

parseFunctionParameters(p) ==
    IF peekTokenIs(p, "RPAREN") THEN Result(p, <<>>)
    ELSE Bind(parseParameter(nextToken(p)), LAMBDA first :
           parseFunctionParametersRest(first.p, <<first.node>>))

parseBlockStatement(p) ==
    Wrap(parseBlockStatements(p, <<>>), LAMBDA stmts :
      [kind |-> "BlockStmt", Statements |-> stmts])

\* a function declaration that takes no return type before the colon
parseNoReturnType(p) == Result(p, Nil)

\* the optional return type of parseFunctionDeclaration
parseReturnType(p) ==
    IF peekTokenIs(p, "IDENT") \/ peekTokenIs(p, "LPAREN")
    THEN parseTypeSpec(nextToken(p))
    ELSE Result(p, Nil)

parseFunctionDeclaration(p) ==
    Bind(expectPeek(p, "IDENT"), LAMBDA e1 :
      IF ~e1.ok THEN Result(e1.p, Nil)
      ELSE
    Bind(expectPeek(e1.p, "LPAREN"), LAMBDA e2 :
      IF ~e2.ok THEN Result(e2.p, Nil)
      ELSE
    Bind(parseFunctionParameters(e2.p), LAMBDA params :
    Bind(expectPeek(params.p, "RPAREN"), LAMBDA e3 :
      IF ~e3.ok THEN Result(e3.p, Nil)
      ELSE
    Bind(parseReturnType(e3.p), LAMBDA returnType :
    Bind(expectPeek(returnType.p, "COLON"), LAMBDA e4 :
      IF ~e4.ok THEN Result(e4.p, Nil)
      ELSE Wrap(parseBlockStatement(skipPeekNewlines(e4.p)), LAMBDA body :
             [kind |-> "FunctionDecl", Name |-> e1.p.curToken.Literal,
              Parameters |-> params.node, ReturnType |-> returnType.node,
              Body |-> body, Receiver |-> Nil])))))))

\* a method of parseStructDeclaration: the receiver is self, of the struct's type
parseMethod(p, name, methods) ==
    Bind(parseFunctionDeclaration(p), LAMBDA m :
      Result(m.p, IF isNil(m.node) THEN methods
                  ELSE Append(methods,
                              [m.node EXCEPT !.Receiver =
                                 [kind |-> "Parameter", Name |-> "self",
                                  Type |-> TypeSpec(name)]])))

\* a field of parseStructDeclaration: the name, then the type when one follows
parseField(p, fields) ==
    Bind(nextToken(p), LAMBDA p1 :
      Wrap(IF curTokenIs(p1, "IDENT") THEN parseTypeSpec(p1) ELSE Result(p1, Nil),
           LAMBDA t : Append(fields, [kind |-> "Field", Name |-> p.curToken.Literal,
                                      Type |-> t])))

\* the loop of parseStructDeclaration over fields and methods
parseStructBody(p, name, fields, methods) ==
    IF (~curTokenIs(p, "EOF") /\ curTokenIs(p, "IDENT")) \/ curTokenIs(p, "FUNC")
    THEN IF curTokenIs(p, "NEWLINE")
         THEN parseStructBody(nextToken(p), name, fields, methods)
         ELSE IF curTokenIs(p, "FUNC")
         THEN Bind(parseMethod(p, name, methods), LAMBDA m :
                parseStructBody(nextToken(m.p), name, fields, m.node))
         ELSE Bind(parseField(p, fields), LAMBDA f :
                parseStructBody(nextToken(f.p), name, f.node, methods))
    ELSE [p |-> p, fields |-> fields, methods |-> methods]

parseStructDeclaration(p) ==
    Bind(expectPeek(p, "IDENT"), LAMBDA e1 :
      IF ~e1.ok THEN Result(e1.p, Nil)
      ELSE
    Bind(expectPeek(e1.p, "COLON"), LAMBDA e2 :
      IF ~e2.ok THEN Result(e2.p, Nil)
      ELSE
    Bind(parseStructBody(skipPeekNewlines(e2.p), e1.p.curToken.Literal, <<>>, <<>>),
         LAMBDA body :
      Result(body.p, [kind |-> "StructDecl", Name |-> e1.p.curToken.Literal,
                      Fields |-> body.fields, Methods |-> body.methods]))))

VarDecl(name, type, value, isWalrus) ==
    [kind |-> "VarDecl", Name |-> name, Type |-> type, Value |-> value,
     IsWalrus |-> isWalrus]

\* stmt.Value = p.parseExpression(LOWEST), after the tokens skipped before it
parseVarValue(p, name, type, isWalrus) ==
    Wrap(parseExpression(p, LOWEST), LAMBDA v : VarDecl(name, type, v, isWalrus))

\* var name type = value
parseTypedVar(p, name) ==
    Bind(parseTypeSpec(nextToken(p)), LAMBDA t :
    Bind(expectPeek(t.p, "ASSIGN"), LAMBDA e :
      IF ~e.ok THEN Result(e.p, Nil)
      ELSE parseVarValue(nextToken(e.p), name, t.node, FALSE)))

\* parseVarDeclaration after the name: the forms a var or a bare name takes
parseVarRest(p, name) ==
    IF peekTokenIs(p, "ASSIGN")
    THEN parseVarValue(nextToken(nextToken(p)), name, Nil, FALSE)
    ELSE Result(p, VarDecl(name, Nil, Nil, FALSE))

parseVarDeclaration(p) ==
    IF curTokenIs(p, "VAR")
    THEN Bind(expectPeek(p, "IDENT"), LAMBDA e1 :
           IF ~e1.ok THEN Result(e1.p, Nil)
           ELSE IF peekTokenIs(e1.p, "IDENT")
           THEN parseTypedVar(e1.p, e1.p.curToken.Literal)
           ELSE parseVarRest(e1.p, e1.p.curToken.Literal))
    ELSE IF curTokenIs(p, "IDENT")
    THEN IF peekTokenIs(p, "WALRUS")
         THEN parseVarValue(nextToken(nextToken(p)), p.curToken.Literal, Nil, TRUE)
         ELSE parseVarRest(p, p.curToken.Literal)
    ELSE Result(p, VarDecl("", Nil, Nil, FALSE))

\* a colon, the newlines after it, and a block
parseColonBlock(p) ==
    Bind(expectPeek(p, "COLON"), LAMBDA e :
      IF ~e.ok THEN Result(e.p, Nil)
      ELSE parseBlockStatement(skipPeekNewlines(e.p)))

\* the elif or else part of parseIfStatement; p.curToken is the keyword
parseElse(p, stmt) ==
    IF curTokenIs(p, "ELIF")
    THEN Wrap(parseIfStatement(p), LAMBDA elif :
           [stmt EXCEPT !.ElseBranch = ToInterface(elif, "IfStmt")])
    ELSE Bind(parseColonBlock(p), LAMBDA else :
           Result(else.p, IF isNil(else.node) THEN Nil
                          ELSE [stmt EXCEPT !.ElseBranch = else.node]))

parseIfStatement(p) ==
    Bind(parseExpression(nextToken(p), LOWEST), LAMBDA c :
    Bind(parseColonBlock(c.p), LAMBDA then :
      IF isNil(then.node) THEN then
      ELSE
    Bind([kind |-> "IfStmt", Condition |-> c.node, ThenBranch |-> then.node,
          ElseBranch |-> Nil], LAMBDA stmt :
      IF peekTokenIs(then.p, "ELIF") \/ peekTokenIs(then.p, "ELSE")
      THEN parseElse(nextToken(then.p), stmt)
      ELSE Result(then.p, stmt))))

ForStmt ==
    [kind |-> "ForStmt", Init |-> Nil, Condition |-> Nil, Update |-> Nil, Body |-> Nil,
     IsRange |-> FALSE, RangeVar |-> "", RangeExpr |-> Nil]

\* the end of parseForStatement: the colon and the body
parseForBody(p, stmt) ==
    Bind(parseColonBlock(p), LAMBDA body :
      Result(body.p, IF isNil(body.node) THEN Nil
                     ELSE [stmt EXCEPT !.Body = body.node]))

\* for i in iterable:
parseRangeFor(p) ==
    Bind(parseExpression(nextToken(nextToken(p)), LOWEST), LAMBDA r :
      parseForBody(r.p, [ForStmt EXCEPT !.IsRange = TRUE,
                                        !.RangeVar = p.curToken.Literal,
                                        !.RangeExpr = r.node]))

\* for init; condition; update:
parseClauseFor(p) ==
    Bind(parseStatement(p), LAMBDA init :
    Bind(expectPeek(init.p, "SEMICOLON"), LAMBDA e1 :
      IF ~e1.ok THEN Result(e1.p, Nil)
      ELSE
    Bind(parseExpression(nextToken(e1.p), LOWEST), LAMBDA cond :
    Bind(expectPeek(cond.p, "SEMICOLON"), LAMBDA e2 :
      IF ~e2.ok THEN Result(e2.p, Nil)
      ELSE
    Bind(parseStatement(nextToken(e2.p)), LAMBDA update :
      parseForBody(update.p, [ForStmt EXCEPT !.Init = init.node,
                                             !.Condition = cond.node,
                                             !.Update = update.node]))))))

parseForStatement(p) ==
    Bind(nextToken(p), LAMBDA p1 :
      IF peekTokenIs(p1, "IN") THEN parseRangeFor(p1) ELSE parseClauseFor(p1))

parseWhileStatement(p) ==
    Bind(parseExpression(nextToken(p), LOWEST), LAMBDA c :
    Bind(parseColonBlock(c.p), LAMBDA body :
      Result(body.p, IF isNil(body.node) THEN Nil
                     ELSE [kind |-> "WhileStmt", Condition |-> c.node,
                           Body |-> body.node])))

parseReturnStatement(p) ==
    IF ~peekTokenIs(p, "NEWLINE") /\ ~peekTokenIs(p, "EOF")
    THEN Wrap(parseExpression(nextToken(p), LOWEST), LAMBDA v :
           [kind |-> "ReturnStmt", Value |-> v])
    ELSE Result(p, [kind |-> "ReturnStmt", Value |-> Nil])

parseExpressionStatement(p) ==
    Wrap(parseExpression(p, LOWEST), LAMBDA e :
      [kind |-> "ExpressionStmt", Expression |-> e])

\* every branch returns a pointer as an ast.Statement
AsStatement(r, type) == Result(r.p, ToInterface(r.node, type))

parseStatement(p) ==
    CASE curTokenIs(p, "FUNC") -> AsStatement(parseFunctionDeclaration(p), "FunctionDecl")
      [] curTokenIs(p, "STRUCT") -> AsStatement(parseStructDeclaration(p), "StructDecl")
      [] curTokenIs(p, "VAR") -> AsStatement(parseVarDeclaration(p), "VarDecl")
      [] curTokenIs(p, "IF") -> AsStatement(parseIfStatement(p), "IfStmt")
      [] curTokenIs(p, "FOR") -> AsStatement(parseForStatement(p), "ForStmt")
      [] curTokenIs(p, "WHILE") -> AsStatement(parseWhileStatement(p), "WhileStmt")
      [] curTokenIs(p, "RETURN") -> AsStatement(parseReturnStatement(p), "ReturnStmt")
      [] curTokenIs(p, "IDENT") /\ (peekTokenIs(p, "WALRUS") \/ peekTokenIs(p, "ASSIGN")) ->
           AsStatement(parseVarDeclaration(p), "VarDecl")
      [] OTHER -> AsStatement(parseExpressionStatement(p), "ExpressionStmt")

\* one statement and the advance after it, as the loops of ParseProgram and
\* parseBlockStatement do: the statement is kept unless the interface is nil
StatementAndAdvance(p, stmts) ==
    Bind(parseStatement(p), LAMBDA r :
      Result(IF ~curTokenIs(r.p, "EOF") THEN nextToken(r.p) ELSE r.p,
             IF ~isNil(r.node) THEN Append(stmts, r.node) ELSE stmts))

\* the loop of parseBlockStatement
parseBlockStatements(p, stmts) ==
    IF curTokenIs(p, "EOF") THEN Result(p, stmts)
    ELSE IF curTokenIs(p, "NEWLINE") THEN parseBlockStatements(nextToken(p), stmts)
    ELSE IF curTokenIs(p, "FUNC") THEN Result(p, stmts)
    ELSE Bind(StatementAndAdvance(p, stmts), LAMBDA r :
           parseBlockStatements(r.p, r.node))

(***************************************************************************)
(* Imports and the program                                                 *)
(***************************************************************************)
ImportAliases ==
    [json |-> "encoding/json", base64 |-> "encoding/base64", hex |-> "encoding/hex",
     xml |-> "encoding/xml", csv |-> "encoding/csv", fs |-> "io/fs", io |-> "io",
     ioutil |-> "io/ioutil", path |-> "path", filepath |-> "path/filepath",
     os |-> "os", http |-> "net/http", url |-> "net/url", net |-> "net",
     mail |-> "net/mail", crypto |-> "crypto", md5 |-> "crypto/md5",
     sha1 |-> "crypto/sha1", sha256 |-> "crypto/sha256", rand |-> "crypto/rand",
     tls |-> "crypto/tls", time |-> "time", strings |-> "strings",
     strconv |-> "strconv", regexp |-> "regexp", math |-> "math", big |-> "math/big",
     rand_math |-> "math/rand", gzip |-> "compress/gzip", zip |-> "archive/zip",
     tar |-> "archive/tar", sql |-> "database/sql", log |-> "log", fmt |-> "fmt",
     sync |-> "sync", context |-> "context", reflect |-> "reflect",
     runtime |-> "runtime", testing |-> "testing", sort |-> "sort",
     heap |-> "container/heap", list |-> "container/list", ring |-> "container/ring",
     image |-> "image", color |-> "image/color", png |-> "image/png",
     jpeg |-> "image/jpeg", gif |-> "image/gif", template |-> "text/template",
     html_template |-> "html/template", html |-> "html", scanner |-> "text/scanner",
     tabwriter |-> "text/tabwriter", exec |-> "os/exec", signal |-> "os/signal",
     user |-> "os/user", bytes |-> "bytes", bufio |-> "bufio", errors |-> "errors",
     unicode |-> "unicode", utf8 |-> "unicode/utf8", utf16 |-> "unicode/utf16"]

GetRealPackagePath(alias) ==
    IF alias \in DOMAIN ImportAliases THEN ImportAliases[alias] ELSE alias

\* strings.Trim(s, `"`)
RECURSIVE TrimQuotes(_)
TrimQuotes(s) ==
    IF s # "" /\ CharAt(s, 0) = "\"" THEN TrimQuotes(SubSeq(s, 2, Len(s)))
    ELSE IF s # "" /\ CharAt(s, Len(s) - 1) = "\"" THEN TrimQuotes(SubSeq(s, 1, Len(s) - 1))
    ELSE s

\* the quoted, alias-resolved form of the path of a STRING token
ResolvedPath(literal) == "\"" \o GetRealPackagePath(TrimQuotes(literal)) \o "\""

ImportDecl == [kind |-> "ImportDecl", Path |-> "", Alias |-> "", Items |-> <<>>]

\* the item loop of `from "path" import a, b`
RECURSIVE parseFromItems(_, _)
parseFromItems(p, items) ==
    Bind(IF curTokenIs(p, "IDENT") THEN Append(items, p.curToken.Literal) ELSE items,
         LAMBDA more :
      IF ~peekTokenIs(p, "COMMA") THEN Result(p, more)
      ELSE parseFromItems(nextToken(nextToken(p)), more))

\* p.nextToken(); if p.curTokenIs(lexer.COMMA) { p.nextToken() }
skipItemAndComma(p) == IF curTokenIs(p, "COMMA") THEN nextToken(p) ELSE p

\* the loop of `import ("a", "b")`
RECURSIVE parseImportList(_, _)
parseImportList(p, items) ==
    IF ~curTokenIs(p, "RPAREN") /\ ~curTokenIs(p, "EOF")
    THEN parseImportList(skipItemAndComma(nextToken(p)),
                         IF curTokenIs(p, "STRING")
                         THEN Append(items, ResolvedPath(p.curToken.Literal))
                         ELSE items)
    ELSE Result(p, items)

\* from "path" import item1, item2; p.curToken is the token after from
parseFromImport(p) ==
    IF ~curTokenIs(p, "STRING") THEN Result(p, Nil)
    ELSE Bind(expectPeek(nextToken(p), "IMPORT"), LAMBDA e :
           IF ~e.ok THEN Result(e.p, Nil)
           ELSE Wrap(parseFromItems(nextToken(e.p), <<>>), LAMBDA items :
                  [ImportDecl EXCEPT !.Path = p.curToken.Literal, !.Items = items]))

\* the optional `as alias`; p.curToken is the token after the path
parseImportAlias(p, decl) ==
    IF curTokenIs(p, "IDENT") /\ p.curToken.Literal = "as"
    THEN Bind(nextToken(p), LAMBDA p1 :
           Result(p1, IF curTokenIs(p1, "IDENT")
                      THEN [decl EXCEPT !.Alias = p1.curToken.Literal]
                      ELSE decl))
    ELSE Result(p, decl)

\* the forms of import; p.curToken is the token after import
parsePlainImport(p) ==
    IF curTokenIs(p, "LPAREN")
    THEN Wrap(parseImportList(nextToken(p), <<>>), LAMBDA items :
           [ImportDecl EXCEPT !.Items = items])
    ELSE IF curTokenIs(p, "STRING")
    THEN parseImportAlias(nextToken(p),
                          [ImportDecl EXCEPT !.Path = ResolvedPath(p.curToken.Literal)])
    ELSE IF curTokenIs(p, "IDENT")
    THEN Result(p, [ImportDecl EXCEPT !.Path = p.curToken.Literal])
    ELSE Result(p, ImportDecl)

parseImportDeclaration(p) ==
    IF curTokenIs(p, "FROM") THEN parseFromImport(nextToken(p))
    ELSE IF curTokenIs(p, "IMPORT") THEN parsePlainImport(nextToken(p))
    ELSE Result(p, ImportDecl)

\* the import loop of ParseProgram
RECURSIVE parseImports(_, _)
parseImports(p, imports) ==
    IF curTokenIs(p, "IMPORT") \/ curTokenIs(p, "FROM")
    THEN Bind(parseImportDeclaration(p), LAMBDA r :
           parseImports(skipCurNewlines(r.p),
                        IF ~isNil(r.node) THEN Append(imports, r.node) ELSE imports))
    ELSE Result(p, imports)

\* the statement loop of ParseProgram
RECURSIVE parseTopLevel(_, _)
parseTopLevel(p, stmts) ==
    IF curTokenIs(p, "EOF") THEN Result(p, stmts)
    ELSE IF curTokenIs(p, "NEWLINE") \/ curTokenIs(p, "INDENT") \/ curTokenIs(p, "DEDENT")
    THEN parseTopLevel(nextToken(p), stmts)
    ELSE Bind(StatementAndAdvance(p, stmts), LAMBDA r : parseTopLevel(r.p, r.node))

\* the package name after the keyword package
parsePackageName(p) ==
    IF curTokenIs(p, "IDENT") THEN Result(nextToken(p), p.curToken.Literal)
    ELSE Result(p, "")

\* the package clause of ParseProgram
parsePackage(p) ==
    IF curTokenIs(p, "PACKAGE") THEN parsePackageName(nextToken(p))
    ELSE Result(p, "main")

ParseProgram(p) ==
    Bind(parsePackage(p), LAMBDA pkg :
    Bind(parseImports(skipCurNewlines(pkg.p), <<>>), LAMBDA imports :
    Bind(parseTopLevel(imports.p, <<>>), LAMBDA stmts :
      Result(stmts.p, [Package |-> pkg.node, Imports |-> imports.node,
                       Statements |-> stmts.node]))))

(***************************************************************************)
(* Generator.  A generator is its output text, its indent level, and       *)
(* whether it has panicked on a nil pointer.                               *)
(***************************************************************************)
GeneratorNew == [output |-> "", indentLevel |-> 0, panicked |-> FALSE]

RECURSIVE Tabs(_)
Tabs(n) == IF n = 0 THEN "" ELSE "\t" \o Tabs(n - 1)

writeLine(g, line) ==
    IF g.panicked THEN g
    ELSE IF line = "" THEN [g EXCEPT !.output = @ \o "\n"]
    ELSE [g EXCEPT !.output = @ \o Tabs(g.indentLevel) \o line \o "\n"]

\* g.indentLevel++ and g.indentLevel--
indented(g, by) == [g EXCEPT !.indentLevel = @ + by]

\* a nil pointer dereference
nilDereference(g) == [g EXCEPT !.panicked = TRUE]

\* strings.Join(texts, sep)
RECURSIVE Join(_, _)
Join(texts, sep) ==
    IF texts = <<>> THEN ""
    ELSE IF Len(texts) = 1 THEN texts[1]
    ELSE texts[1] \o sep \o Join(Tail(texts), sep)

\* fmt.Sprintf("%v", n) and %d of a non-negative int
RECURSIVE Itoa(_)
Itoa(n) == IF n < 10 THEN Digit(n) ELSE Itoa(n \div 10) \o Digit(n % 10)

\* a digit text without its leading zeros, one digit at least
RECURSIVE TrimLeadingZeros(_)
TrimLeadingZeros(s) ==
    IF Len(s) > 1 /\ CharAt(s, 0) = "0" THEN TrimLeadingZeros(SubSeq(s, 2, Len(s)))
    ELSE s

\* a fraction text without its trailing zeros
RECURSIVE TrimTrailingZeros(_)
TrimTrailingZeros(s) ==
    IF s # "" /\ CharAt(s, Len(s) - 1) = "0"
    THEN TrimTrailingZeros(SubSeq(s, 1, Len(s) - 1))
    ELSE s

\* the offset of the first c in s, Len(s) when there is none
RECURSIVE IndexOf(_, _)
IndexOf(s, c) ==
    IF s = "" \/ CharAt(s, 0) = c THEN 0 ELSE 1 + IndexOf(SubSeq(s, 2, Len(s)), c)

\* fmt.Sprintf("%v", f) of the float64 that strconv.ParseFloat made of a text
\* of digits, a dot and digits: the shortest text that reads back as f
FormatFloat(text) ==
    Bind(IndexOf(text, "."), LAMBDA dot :
    Bind(TrimTrailingZeros(SubSeq(text, dot + 2, Len(text))), LAMBDA fraction :
      TrimLeadingZeros(SubSeq(text, 1, dot))
      \o (IF fraction = "" THEN "" ELSE "." \o fraction)))

RECURSIVE generateExpression(_)
RECURSIVE generateExpressions(_)
RECURSIVE generateMapPairs(_)

generateLiteral(l) ==
    CASE l.Type = "string" -> "\"" \o l.Value \o "\""
      [] l.Type = "int" -> Itoa(l.Value)
      [] l.Type = "float" -> FormatFloat(l.Value)
      [] l.Type = "bool" -> IF l.Value THEN "true" ELSE "false"
      [] l.Type = "nil" -> "nil"

generateBinaryExpr(b) ==
    IF b.Operator = "**"
    THEN "math.Pow(" \o generateExpression(b.Left) \o ", "
         \o generateExpression(b.Right) \o ")"
    ELSE "(" \o generateExpression(b.Left) \o " "
         \o (CASE b.Operator = "and" -> "&&"
               [] b.Operator = "or" -> "||"
               [] OTHER -> b.Operator)
         \o " " \o generateExpression(b.Right) \o ")"

generateUnaryExpr(u) ==
    (IF u.Operator = "not" THEN "!" ELSE u.Operator) \o generateExpression(u.Operand)

generateCallExpr(c) ==
    Bind(generateExpressions(c.Arguments), LAMBDA args :
      IF c.Function.kind = "Identifier" /\ c.Function.Value = "print"
      THEN "fmt.Println(" \o Join(args, ", ") \o ")"
      ELSE IF c.Function.kind = "Identifier" /\ c.Function.Value = "len"
      THEN "len(" \o Join(args, ", ") \o ")"
      ELSE IF c.Function.kind = "Identifier" /\ c.Function.Value = "range"
              /\ Len(args) > 0
      THEN args[1]
      ELSE generateExpression(c.Function) \o "(" \o Join(args, ", ") \o ")")

generateArrayLiteral(a) ==
    "[]interface{}{" \o Join(generateExpressions(a.Elements), ", ") \o "}"

generateMapLiteral(m) ==
    "map[interface{}]interface{}{" \o Join(generateMapPairs(m.Pairs), ", ") \o "}"

generateIndexExpr(i) ==
    generateExpression(i.Object) \o "[" \o generateExpression(i.Index) \o "]"

generateSelectorExpr(s) == generateExpression(s.Object) \o "." \o s.Selector

generateExpression(expr) ==
    CASE expr.kind = "Identifier" -> expr.Value
      [] expr.kind = "Literal" -> generateLiteral(expr)
      [] expr.kind = "BinaryExpr" -> generateBinaryExpr(expr)
      [] expr.kind = "UnaryExpr" -> generateUnaryExpr(expr)
      [] expr.kind = "CallExpr" -> generateCallExpr(expr)
      [] expr.kind = "ArrayLiteral" -> generateArrayLiteral(expr)
      [] expr.kind = "MapLiteral" -> generateMapLiteral(expr)
      [] expr.kind = "IndexExpr" -> generateIndexExpr(expr)
      [] expr.kind = "SelectorExpr" -> generateSelectorExpr(expr)
      [] OTHER -> ""

\* the loops that render each argument or element
generateExpressions(exprs) ==
    [i \in 1..Len(exprs) |-> generateExpression(exprs[i])]

\* a loop that renders the pairs last to first
generateMapPairsReversed(pairs) ==
    [i \in 1..Len(pairs) |->
       generateExpression(pairs[Len(pairs) + 1 - i].Key) \o ": "
       \o generateExpression(pairs[Len(pairs) + 1 - i].Value)]

\* the loop of generateMapLiteral: one "key: value" text for each pair, in order
generateMapPairs(pairs) ==
    [i \in 1..Len(pairs) |->
       generateExpression(pairs[i].Key) \o ": " \o generateExpression(pairs[i].Value)]

RECURSIVE generateTypeSpec(_)
generateTypeSpec(t) ==
    (IF t.IsPointer THEN "*" ELSE "")
    \o (IF t.IsSlice THEN "[]" ELSE "")
    \o (IF t.IsArray THEN "[" \o Itoa(t.ArraySize) \o "]" ELSE "")
    \o (IF ~isNil(t.KeyType) /\ ~isNil(t.ValueType)
        THEN "map[" \o generateTypeSpec(t.KeyType) \o "]" \o generateTypeSpec(t.ValueType)
        ELSE IF ~isNil(t.ValueType) THEN generateTypeSpec(t.ValueType)
        ELSE t.Name)

generateParameter(p) ==
    IF ~isNil(p.Type) THEN p.Name \o " " \o generateTypeSpec(p.Type) ELSE p.Name

generateParameters(params) == [i \in 1..Len(params) |-> generateParameter(params[i])]

\* whether stmt is a nil pointer of the given type inside the interface
isTypedNil(stmt, type) == stmt.kind = "typednil" /\ stmt.type = type

\* whether generateStatementInline dereferences a nil pointer on stmt
inlinePanics(stmt) == isTypedNil(stmt, "VarDecl") \/ isTypedNil(stmt, "ExpressionStmt")

generateStatementInline(stmt) ==
    CASE stmt.kind = "VarDecl" ->
           IF ~isNil(stmt.Type)
           THEN "var " \o stmt.Name \o " " \o generateTypeSpec(stmt.Type) \o " = "
                \o generateExpression(stmt.Value)
           ELSE stmt.Name \o " := " \o generateExpression(stmt.Value)
      [] stmt.kind = "ExpressionStmt" -> generateExpression(stmt.Expression)
      [] OTHER -> ""

RECURSIVE generateStatement(_, _)
RECURSIVE generateStatements(_, _)

generateBlockStmt(g, b) ==
    IF isNil(b) THEN nilDereference(g) ELSE generateStatements(g, b.Statements)

\* the signature line of generateFunctionDecl
functionSignature(fn) ==
    "func "
    \o (IF ~isNil(fn.Receiver) THEN "(" \o generateParameter(fn.Receiver) \o ") " ELSE "")
    \o fn.Name \o "(" \o Join(generateParameters(fn.Parameters), ", ") \o ")"
    \o (IF ~isNil(fn.ReturnType) THEN " " \o generateTypeSpec(fn.ReturnType) ELSE "")

\* a header line, the body one level deeper, and the closing brace
generateBraced(g, header, body) ==
    writeLine(indented(generateBlockStmt(indented(writeLine(g, header), 1), body), -1),
              "}")

generateFunctionDecl(g, fn) == generateBraced(g, functionSignature(fn) \o " {", fn.Body)

\* the Tag of a Field is never set by the parser, so no tag is written
generateField(g, field) ==
    writeLine(g, IF ~isNil(field.Type)
                 THEN field.Name \o " " \o generateTypeSpec(field.Type)
                 ELSE field.Name)

RECURSIVE generateFields(_, _)
generateFields(g, fields) ==
    IF fields = <<>> THEN g
    ELSE generateFields(generateField(g, Head(fields)), Tail(fields))

RECURSIVE generateMethods(_, _)
generateMethods(g, methods) ==
    IF methods = <<>> THEN g
    ELSE generateMethods(generateFunctionDecl(writeLine(g, ""), Head(methods)),
                         Tail(methods))

generateStructDecl(g, s) ==
    generateMethods(
      writeLine(indented(generateFields(indented(
        writeLine(g, "type " \o s.Name \o " struct {"), 1), s.Fields), -1), "}"),
      s.Methods)

generateVarDecl(g, v) ==
    IF ~isNil(v.Type)
    THEN writeLine(g, "var " \o v.Name \o " " \o generateTypeSpec(v.Type)
                      \o (IF ~isNil(v.Value) THEN " = " \o generateExpression(v.Value)
                          ELSE ""))
    ELSE IF v.IsWalrus
    THEN writeLine(g, v.Name \o " := " \o generateExpression(v.Value))
    ELSE writeLine(g, v.Name \o " = " \o generateExpression(v.Value))

\* the else part of generateIfStmt; a nil pointer in the interface is not nil
generateElse(g, branch) ==
    IF isNil(branch) THEN g
    ELSE indented(generateStatement(indented(writeLine(g, "} else {"), 1), branch), -1)

generateIfStmt(g, i) ==
    writeLine(
      generateElse(
        indented(generateStatement(
          indented(writeLine(g, "if " \o generateExpression(i.Condition) \o " {"), 1),
          i.ThenBranch), -1),
        i.ElseBranch),
      "}")

\* the header of a range loop: nothing is written for a call that is not
\* range(...) with an argument
generateRangeHeader(g, f) ==
    IF f.RangeExpr.kind = "CallExpr"
    THEN IF /\ f.RangeExpr.Function.kind = "Identifier"
            /\ f.RangeExpr.Function.Value = "range"
            /\ Len(f.RangeExpr.Arguments) > 0
         THEN writeLine(g, "for " \o f.RangeVar \o " := 0; " \o f.RangeVar \o " < "
                           \o generateExpression(f.RangeExpr.Arguments[1]) \o "; "
                           \o f.RangeVar \o "++ {")
         ELSE g
    ELSE writeLine(g, "for " \o f.RangeVar \o " := range "
                      \o generateExpression(f.RangeExpr) \o " {")

\* the header of a three-clause loop
generateClauseHeader(g, f) ==
    IF inlinePanics(f.Init) \/ inlinePanics(f.Update) THEN nilDereference(g)
    ELSE writeLine(g, "for " \o generateStatementInline(f.Init) \o "; "
                      \o generateExpression(f.Condition) \o "; "
                      \o generateStatementInline(f.Update) \o " {")

generateForStmt(g, f) ==
    writeLine(indented(generateBlockStmt(
      indented(IF f.IsRange THEN generateRangeHeader(g, f)
               ELSE generateClauseHeader(g, f), 1),
      f.Body), -1), "}")

generateWhileStmt(g, w) ==
    generateBraced(g, "for " \o generateExpression(w.Condition) \o " {", w.Body)

generateReturnStmt(g, r) ==
    IF ~isNil(r.Value) THEN writeLine(g, "return " \o generateExpression(r.Value))
    ELSE writeLine(g, "return")

generateExpressionStmt(g, e) == writeLine(g, generateExpression(e.Expression))

generateStatement(g, stmt) ==
    IF g.panicked THEN g
    ELSE CASE stmt.kind = "FunctionDecl" -> generateFunctionDecl(g, stmt)
           [] stmt.kind = "StructDecl" -> generateStructDecl(g, stmt)
           [] stmt.kind = "VarDecl" -> generateVarDecl(g, stmt)
           [] stmt.kind = "IfStmt" -> generateIfStmt(g, stmt)
           [] stmt.kind = "ForStmt" -> generateForStmt(g, stmt)
           [] stmt.kind = "WhileStmt" -> generateWhileStmt(g, stmt)
           [] stmt.kind = "ReturnStmt" -> generateReturnStmt(g, stmt)
           [] stmt.kind = "ExpressionStmt" -> generateExpressionStmt(g, stmt)
           [] stmt.kind = "BlockStmt" -> generateBlockStmt(g, stmt)
           [] stmt.kind = "typednil" -> nilDereference(g)
           [] OTHER -> g

\* the loop of generateBlockStmt
generateStatements(g, stmts) ==
    IF stmts = <<>> THEN g
    ELSE generateStatements(generateStatement(g, Head(stmts)), Tail(stmts))

HasPrefix(s, prefix) == Len(s) >= Len(prefix) /\ SubSeq(s, 1, Len(prefix)) = prefix

HasSuffix(s, suffix) ==
    Len(s) >= Len(suffix) /\ SubSeq(s, Len(s) - Len(suffix) + 1, Len(s)) = suffix

\* the lines of generateImport for a declaration with items
RECURSIVE generateImportItems(_, _, _)
generateImportItems(g, items, path) ==
    IF items = <<>> THEN g
    ELSE generateImportItems(
           writeLine(g, IF path # "" THEN Head(items) \o " \"" \o path \o "\""
                        ELSE "\"" \o TrimQuotes(Head(items)) \o "\""),
           Tail(items), path)

generateImport(g, imp) ==
    IF Len(imp.Items) > 0 THEN generateImportItems(g, imp.Items, imp.Path)
    ELSE IF imp.Alias # "" THEN writeLine(g, imp.Alias \o " \"" \o imp.Path \o "\"")
    ELSE IF ~HasPrefix(imp.Path, "\"") /\ ~HasSuffix(imp.Path, "\"")
    THEN writeLine(g, "\"" \o imp.Path \o "\"")
    ELSE writeLine(g, imp.Path)

RECURSIVE generateImportLines(_, _)
generateImportLines(g, imports) ==
    IF imports = <<>> THEN g
    ELSE generateImportLines(generateImport(g, Head(imports)), Tail(imports))

\* the import block of Generate
generateImports(g, imports) ==
    IF Len(imports) > 0
    THEN writeLine(writeLine(indented(generateImportLines(
           indented(writeLine(g, "import ("), 1), imports), -1), ")"), "")
    ELSE g

\* the statement loop of Generate: a blank line between top-level statements
RECURSIVE generateTopLevel(_, _)
generateTopLevel(g, stmts) ==
    IF stmts = <<>> THEN g
    ELSE Bind(generateStatement(g, Head(stmts)), LAMBDA g1 :
           generateTopLevel(IF Len(stmts) > 1 THEN writeLine(g1, "") ELSE g1,
                            Tail(stmts)))

\* Generate, as the generator it leaves: its output is the returned text
Generate(ast) ==
    generateTopLevel(
      generateImports(writeLine(writeLine(GeneratorNew, "package " \o ast.Package), ""),
                      ast.Imports),
      ast.Statements)

(***************************************************************************)
(* compileFile's post-processing of the generated text                     *)
(***************************************************************************)
\* strings.Contains(s, sub)
Contains(s, sub) ==
    \E i \in 1..(Len(s) - Len(sub) + 1) : SubSeq(s, i, i + Len(sub) - 1) = sub

\* strings.Split(s, "\n")
RECURSIVE SplitLines(_)
SplitLines(s) ==
    Bind(IndexOf(s, "\n"), LAMBDA i :
      IF i = Len(s) THEN <<s>>
      ELSE <<SubSeq(s, 1, i)>> \o SplitLines(SubSeq(s, i + 2, Len(s))))

\* the imports addRequiredImports decides to add
requiredImports(code) ==
    <<"\"fmt\"">>
    \o (IF Contains(code, "bufio.") THEN <<"\"bufio\"">> ELSE <<>>)
    \o (IF Contains(code, "os.") THEN <<"\"os\"">> ELSE <<>>)
    \o (IF Contains(code, "time.") THEN <<"\"time\"">> ELSE <<>>)
    \o (IF Contains(code, "strings.") THEN <<"\"strings\"">> ELSE <<>>)
    \o (IF Contains(code, "strconv.") THEN <<"\"strconv\"">> ELSE <<>>)
    \o (IF Contains(code, "reflect.") THEN <<"\"reflect\"">> ELSE <<>>)
    \o (IF /\ ~Contains(code, "import (")
           /\ ~Contains(code, "import \"")
           /\ Contains(code, "math.Pow")
        THEN <<"\"math\"">> ELSE <<>>)

\* the lines of an import block
importBlock(imports) ==
    <<"import (">> \o [i \in 1..Len(imports) |-> "\t" \o imports[i]] \o <<")", "">>

\* the loop of addRequiredImports over the lines of the code
RECURSIVE insertImports(_, _, _, _, _)
insertImports(lines, imports, result, packageFound, added) ==
    IF lines = <<>>
    THEN IF packageFound /\ ~added THEN result \o <<"">> \o importBlock(imports)
         ELSE result
    ELSE Bind(packageFound \/ HasPrefix(Head(lines), "package "), LAMBDA found :
           IF found /\ ~added /\ Head(lines) = ""
           THEN insertImports(Tail(lines), imports,
                              Append(result, Head(lines)) \o importBlock(imports),
                              found, TRUE)
           ELSE insertImports(Tail(lines), imports, Append(result, Head(lines)),
                              found, added))

addRequiredImports(code) ==
    Join(insertImports(SplitLines(code), requiredImports(code), <<>>, FALSE, FALSE),
         "\n")

Call(method, receiver) ==
    CASE method = "NextToken" -> NextToken(receiver)
      [] method = "New" -> ParserNew(receiver)
      [] method = "ParseProgram" -> ParseProgram(receiver)
      [] method = "Generate" -> Generate(receiver)

(***************************************************************************)
(* Source texts.  A source is a form and what it is a form of; its text is  *)
(* the concatenation of the fragments the form makes of that.              *)
(***************************************************************************)
RECURSIVE Text(_)
Text(frags) == IF frags = <<>> THEN "" ELSE Head(frags) \o Text(Tail(frags))

RECURSIVE SeqsUpTo(_, _)
SeqsUpTo(S, n) ==
    IF n = 0 THEN {<<>>}
    ELSE Bind(SeqsUpTo(S, n - 1), LAMBDA shorter :
           shorter \cup {Append(s, x) : s \in {t \in shorter : Len(t) = n - 1},
                                         x \in S})

RECURSIVE Flatten(_)
Flatten(seqs) == IF seqs = <<>> THEN <<>> ELSE Head(seqs) \o Flatten(Tail(seqs))

Sources(form, descs) == {[form |-> form, of |-> d] : d \in descs}

\* the characters of the lexer runs
LexAlphabet == {"\"", "'", "\\", "\n", "a", "1", "@", " "}

LexSources == Sources("bytes", SeqsUpTo(LexAlphabet, MaxLen))

\* a comment after some text, and what follows it
CommentPrefixes == {"", "a ", "    ", "\t"}

CommentBodies == {"", " c", "#x", " a \"b\"", " 1 + 2 "}

CommentEndings == {"", "\n", "\n\n", "\nb", "\n# d\n"}

CommentSources ==
    Sources("comment", {<<a, "#" \o c, z>> :
                          a \in CommentPrefixes, c \in CommentBodies, z \in CommentEndings})

\* lines of some indentation: code, a comment, or nothing
LineIndents == {"", "  ", "    ", "\t", "      "}

LineContents == {"x", "#c", ""}

IndentedSources == Sources("indented", SeqsUpTo(LineIndents \X LineContents, MaxLines) \ {<<>>})

\* the text of the lines
IndentedSource(lines) ==
    Flatten([i \in 1..Len(lines) |-> <<lines[i][1], lines[i][2], "\n">>])

\* the characters operators are made of, a letter and a blank
OperatorAlphabet == {"=", "+", "-", "*", "/", "%", "!", "<", ">", "&", "^", ":", "a", " "}

OperatorSources == Sources("operators", SeqsUpTo(OperatorAlphabet, MaxOpLen))

\* one word of letters, digits and underscores, between two contexts
Words ==
    {"if", "iffy", "If", "IF", "_if", "if_", "if1", "i", "in", "int", "range",
     "ranged", "nil", "nile", "x", "_", "a1b", "x_1", "func", "function", "not",
     "note", "and", "or", "orbit", "True", "true", "package", "packages"}

WordPrefixes == {"", " ", "(", "1+"}

WordSuffixes == {"", " ", "\n", "(", "+", ".", "\"", ":"}

WordSources == Sources("word", {<<a, w, z>> : a \in WordPrefixes, w \in Words, z \in WordSuffixes})

\* a number: digits, an optional fraction, an optional exponent
IntegerParts == {"4", "42", "0", "007"}

FractionParts == {"", ".5", ".14", ".0"}

ExponentParts == {"", "e3", "E10", "e+3", "e-3", "E+10", "E-3", "e0"}

NumberSources == Sources("number", IntegerParts \X FractionParts \X ExponentParts)

\* the lexemes of the unstructured parser runs
ParseLexemes ==
    {"func ", "struct ", "import ", "from ", "if ", "for ", "x ", "1 ", "\"p\" ",
     "(", ")", ":", ",", "\n", "+", "["}

LexemeSources == Sources("lexemes", SeqsUpTo(ParseLexemes, MaxLexemes))

\* sources that end inside a string literal, after a backslash
EscapeSources ==
    Sources("lexemes", {<<"x = ", "\"", "\\">>, <<"print(", "'", "a", "\\">>})

Line(indent, text) == <<indent, text, "\n">>

Lines(indent, texts) == Flatten([i \in 1..Len(texts) |-> Line(indent, texts[i])])

\* --- k top-level functions, each with a flat body of simple statements ---
SimpleStmts == {"x := 1", "return a + b"}

FuncBodies == SeqsUpTo(SimpleStmts, MaxStmts) \ {<<>>}

FuncDescs == SeqsUpTo(FuncBodies, MaxFuncs) \ {<<>>}

FuncName(j) == "fn" \o Digit(j)

FuncText(j, body) ==
    <<"func ", FuncName(j), "(a int, b int) int:", "\n">> \o Lines("    ", body)
    \o <<"\n">>

FuncSource(d) == Flatten([j \in 1..Len(d) |-> FuncText(j, d[j])])

FuncSources == Sources("functions", FuncDescs)

\* --- a struct with n fields and m methods ---
StructDescs == (0..MaxFields) \X (0..MaxMethods)

FieldName(i) == "fd" \o Digit(i)

MethodName(j) == "md" \o Digit(j)

MethodText(j) ==
    <<"    func ", MethodName(j), "(self) int:", "\n">> \o Line("        ", "return 1")

StructSource(d) ==
    <<"struct ", "S", ":", "\n">>
    \o Lines("    ", [i \in 1..d[1] |-> FieldName(i) \o " int"])
    \o Flatten([j \in 1..d[2] |-> MethodText(j)])

StructSources == Sources("struct", StructDescs)

\* --- if / else and if / elif ---
BranchStmts == {"return true", "y := 2"}

Branches == SeqsUpTo(BranchStmts, MaxStmts) \ {<<>>}

IfDescs == {"else", "elif"} \X Branches \X Branches

IfSource(d) ==
    <<"if c:", "\n">> \o Lines("    ", d[2])
    \o <<IF d[1] = "else" THEN "else:" ELSE "elif d:", "\n">> \o Lines("    ", d[3])

IfSources == Sources("if", IfDescs)

\* --- for i in range(n): ---
RangeBounds == {"3", "10"}

ForSource(n) == <<"for i in range(", n, "):", "\n">> \o Line("    ", "print(i)")

ForSources == Sources("for", RangeBounds)

\* --- a flat expression: operands separated by binary operators ---
BinaryOperators == {"==", "!=", "<", ">", "<=", ">=", "+", "-", "*", "/", "%", "**"}

OperatorSeqs == SeqsUpTo(BinaryOperators, MaxOperators)

Operand(i) == <<"a", "1", "b", "2", "c", "3", "d", "4">>[((i - 1) % 8) + 1]

ExprSource(ops) ==
    <<Operand(1)>> \o Flatten([i \in 1..Len(ops) |-> <<" ", ops[i], " ", Operand(i + 1)>>])

ExprSources == Sources("expression", OperatorSeqs)

\* --- the sources of the parser's own tests and of the documentation ---
AddSource == <<"func add(x int, y int) int:", "\n", "    return x + y">>

PrecedenceSource == <<"1 + 2 * 3">>

QuotedSources == Sources("quoted", {AddSource, PrecedenceSource})

\* --- name := literal and name = literal ---
VarNames == {"x", "name"}

VarLiterals == {"5", "0", "08", "010", "3.14", "\"hello\"", "true", "false", "nil"}

VarDescs == VarNames \X {":=", "="} \X VarLiterals

VarSource(d) == <<d[1], " ", d[2], " ", d[3]>>

VarSources == Sources("variable", VarDescs)

\* --- the documented forms of an import declaration ---
ImportPaths == {"p", "os"}

ImportNames == {"a", "b"}

OneOf(S) == {<<x>> : x \in S}

ImportDescs ==
    {"plain"} \X OneOf(ImportPaths) \X {<<>>}
    \cup {"alias"} \X OneOf(ImportPaths) \X OneOf(ImportNames)
    \cup {"list"} \X (SeqsUpTo(ImportPaths, MaxItems) \ {<<>>}) \X {<<>>}
    \cup {"from"} \X OneOf(ImportPaths) \X (SeqsUpTo(ImportNames, MaxItems) \ {<<>>})

\* the texts of a list, separated by commas
CommaSeparated(texts) ==
    Flatten([i \in 1..Len(texts) |-> IF i = 1 THEN <<texts[i]>> ELSE <<", ", texts[i]>>])

QuotedText(text) == "\"" \o text \o "\""

ImportSource(d) ==
    CASE d[1] = "plain" -> <<"import ", QuotedText(d[2][1]), "\n">>
      [] d[1] = "bare" -> <<"import ", d[2][1], "\n">>
      [] d[1] = "alias" -> <<"import ", QuotedText(d[2][1]), " as ", d[3][1], "\n">>
      [] d[1] = "list" ->
           <<"import (">> \o CommaSeparated([i \in 1..Len(d[2]) |-> QuotedText(d[2][i])])
           \o <<")", "\n">>
      [] d[1] = "from" ->
           <<"from ", QuotedText(d[2][1]), " import ">> \o CommaSeparated(d[3]) \o <<"\n">>

ImportSources == Sources("import", ImportDescs)

\* --- imports of names with and without an entry in the alias table ---
AliasedNames == {"json", "http", "os", "p"}

AliasedDescs ==
    {"plain", "bare"} \X OneOf(AliasedNames) \X {<<>>}
    \cup {"alias"} \X OneOf(AliasedNames) \X OneOf(ImportNames)
    \cup {"list"} \X (SeqsUpTo(AliasedNames, MaxItems) \ {<<>>}) \X {<<>>}

AliasedSources == Sources("aliased", AliasedDescs)

\* --- m := {k1: v1, ..., kn: vn} ---
MapKeys == {"\"a\"", "\"b\"", "k"}

MapValues == {"1", "2"}

MapDescs == SeqsUpTo(MapKeys \X MapValues, MaxPairs)

MapSource(d) ==
    <<"m := {">> \o CommaSeparated([i \in 1..Len(d) |-> d[i][1] \o ": " \o d[i][2]])
    \o <<"}", "\n">>

MapSources == Sources("map", MapDescs)

\* --- declarations that leave a part out ---
DeclaredTexts ==
    {<<"var x">>, <<"var x = 5">>, <<"var y int = 5">>, <<"var y int">>,
     <<"var x", "\n", "x = 1">>, <<"package", "\n", "x := 1">>,
     <<"package demo", "\n", "x := 1">>, <<"x">>}

DeclaredSources == Sources("declared", DeclaredTexts)

\* --- a and b, a or b, alone and as the condition of an if ---
LogicalDescs == {"alone", "if"} \X {"and", "or"}

LogicalSource(d) ==
    IF d[1] = "if"
    THEN <<"if a ", d[2], " b:", "\n", "    return true", "\n">>
    ELSE <<"a ", d[2], " b">>

LogicalSources == Sources("logical", LogicalDescs)

\* --- one expression statement, broken into two lines between two tokens ---
ExpressionTokens ==
    {<<"a", "+", "b">>, <<"a", "-", "b">>, <<"-", "a">>, <<"x", "=", "a", "*", "b">>,
     <<"f", "(", "1", ",", "2", ")">>, <<"xs", "[", "0", "]">>, <<"a", ".", "b">>,
     <<"(", "a", "+", "b", ")">>, <<"[", "1", ",", "2", "]">>,
     <<"m", ":=", "{", "k", ":", "1", ",", "j", ":", "2", "}">>}

ContinuationIndents == {"", "    "}

MultilineDescs ==
    {<<tokens, k, indent>> : tokens \in ExpressionTokens, k \in 1..10,
                             indent \in ContinuationIndents}

\* the tokens from lo to hi with a blank between them
Spaced(tokens, lo, hi) ==
    [i \in 1..(2 * (hi - lo) + 1) |->
       IF i % 2 = 1 THEN tokens[lo + (i - 1) \div 2] ELSE " "]

\* the line break comes after token d[2]
MultilineSource(d) ==
    Spaced(d[1], 1, d[2]) \o <<"\n", d[3]>> \o Spaced(d[1], d[2] + 1, Len(d[1]))

MultilineSources ==
    Sources("multiline", {d \in MultilineDescs : d[2] < Len(d[1])})

\* --- for loops: over range(n), over a call, over a name, with three clauses ---
LoopVars == {"i", "k"}

RangeCalls == {<<"range", "3">>, <<"range", "n">>, <<"range", "">>, <<"items", "">>,
               <<"len", "xs">>}

RangeNames == {<<"", "xs">>, <<"", "m">>}

ClauseInits == {"i = 0", "i := 0"}

ClauseUpdates == {"i = i + 1", "i := i + 1", "i"}

LoopDescs ==
    {<<"range", v, e[1], e[2]>> : v \in LoopVars, e \in RangeCalls \cup RangeNames}
    \cup {<<"clauses", a, "i < 3", z>> : a \in ClauseInits, z \in ClauseUpdates}

\* the expression after in
RangeText(d) == IF d[3] = "" THEN d[4] ELSE d[3] \o "(" \o d[4] \o ")"

LoopSource(d) ==
    (IF d[1] = "range" THEN <<"for ", d[2], " in ", RangeText(d), ":">>
     ELSE <<"for ", d[2], "; ", d[3], "; ", d[4], ":">>)
    \o <<"\n", "    y = 1", "\n">>

LoopSources == Sources("loop", LoopDescs)

\* whether s is a source of the parser runs
IsParserSource(s) ==
    \/ s \in LexemeSources
    \/ s \in EscapeSources
    \/ s \in FuncSources
    \/ s \in StructSources
    \/ s \in IfSources
    \/ s \in ForSources
    \/ s \in ExprSources
    \/ s \in QuotedSources
    \/ s \in VarSources
    \/ s \in ImportSources
    \/ s \in MapSources
    \/ s \in DeclaredSources
    \/ s \in LogicalSources
    \/ s \in MultilineSources
    \/ s \in AliasedSources
    \/ s \in LoopSources

\* the fragments of a source
Fragments(s) ==
    CASE s.form = "functions" -> FuncSource(s.of)
      [] s.form = "struct" -> StructSource(s.of)
      [] s.form = "if" -> IfSource(s.of)
      [] s.form = "for" -> ForSource(s.of)
      [] s.form = "expression" -> ExprSource(s.of)
      [] s.form = "variable" -> VarSource(s.of)
      [] s.form = "import" -> ImportSource(s.of)
      [] s.form = "map" -> MapSource(s.of)
      [] s.form = "logical" -> LogicalSource(s.of)
      [] s.form = "indented" -> IndentedSource(s.of)
      [] s.form = "multiline" -> MultilineSource(s.of)
      [] s.form = "aliased" -> ImportSource(s.of)
      [] s.form = "loop" -> LoopSource(s.of)
      [] OTHER -> s.of

\* the text handed to lexer.New
SourceText(s) == Text(Fragments(s))

(***************************************************************************)
(* The runs: a lexer driven by NextToken calls (Spec), and a lexer handed  *)
(* to parser.New and then ParseProgram (ParserSpec)                        *)
(***************************************************************************)
NoToken == Token("NONE", "", 0, 0, 0)

NoParser == [kind |-> "none"]

NoProgram == [kind |-> "none"]

\* a nil error
NoError == [nil |-> TRUE, message |-> ""]

\* a file that does not exist
NoFile == [exists |-> FALSE, content |-> ""]

\* the build command before compileFile has returned
\* the two runs of the concurrent specification
Runs == {"A", "B"}

\* the package-level tables: lexer.Keywords, the parser's precedences and
\* stdlib.ImportAliases
PackageTables ==
    [Keywords |-> Keywords, precedences |-> precedences, ImportAliases |-> ImportAliases]

\* no Lexer, Parser or Generator has been allocated
EmptyHeap == [lexers |-> <<>>, parsers |-> <<>>, generators |-> <<>>]

\* a run of compileFile that has read its file and done nothing else; l, p
\* and g are its local variables, 0 while unassigned
NewRun(input) ==
    [input |-> input, pc |-> "start", l |-> 0, p |-> 0, g |-> 0,
     program |-> NoProgram, errors |-> <<>>, output |-> ""]

RunsIdle ==
    /\ runs = [r \in Runs |-> NewRun("")]
    /\ heap = EmptyHeap
    /\ tables = PackageTables
    /\ indentTokens = <<>>
    /\ calls = <<>>

BuildIdle ==
    /\ goCode = ""
    /\ err = NoError
    /\ outputFile = NoFile
    /\ stdout = <<>>
    /\ exit = "running"

Init ==
    /\ source \in LexSources \cup OperatorSources \cup WordSources \cup NumberSources
                 \cup CommentSources
    /\ lex = LexerNew(SourceText(source))
    /\ tok = NoToken
    /\ parser = NoParser
    /\ program = NoProgram
    /\ phase = "lexing"
    /\ BuildIdle
    /\ RunsIdle

\* tok := l.NextToken()
CallNextToken ==
    /\ phase = "lexing"
    /\ lex.readPosition <= Len(lex.input) + MaxPastEOF
    /\ \E r \in {Call("NextToken", lex)} :
         /\ lex' = r.l
         /\ tok' = IF r.l.panicked THEN NoToken ELSE r.tok
         /\ phase' = IF r.l.panicked THEN "crashed" ELSE "lexing"
    /\ UNCHANGED <<source, parser, program, buildVars, runVars, indentTokens, calls>>

Next == CallNextToken

Spec == Init /\ [][Next]_vars

ParserInit ==
    /\ IsParserSource(source)
    /\ lex = LexerNew(SourceText(source))
    /\ tok = NoToken
    /\ parser = NoParser
    /\ program = NoProgram
    /\ phase = "new"
    /\ BuildIdle
    /\ RunsIdle

\* p := parser.New(l)
NewParser ==
    /\ phase = "new"
    /\ \E p \in {Call("New", lex)} :
         /\ parser' = p
         /\ lex' = p.l
         /\ phase' = IF p.l.panicked THEN "crashed" ELSE "ready"
    /\ UNCHANGED <<source, tok, program, buildVars, runVars, indentTokens, calls>>

\* program := p.ParseProgram()
RunParseProgram ==
    /\ phase = "ready"
    /\ \E r \in {Call("ParseProgram", parser)} :
         /\ parser' = r.p
         /\ lex' = r.p.l
         /\ program' = IF r.p.l.panicked THEN NoProgram ELSE r.node
         /\ phase' = IF r.p.l.panicked THEN "crashed" ELSE "parsed"
    /\ UNCHANGED <<source, tok, buildVars, runVars, indentTokens, calls>>

ParserNext == NewParser \/ RunParseProgram

ParserSpec == ParserInit /\ [][ParserNext]_vars

(***************************************************************************)
(* The build command: compileFile on a readable .gos file, then buildFile's *)
(* handling of what it returns.  Reading the source and writing the output *)
(* succeed.                                                                *)
(***************************************************************************)
Filename == "main.gos"

\* strings.TrimSuffix(filename, ".gos") + ".go"
OutputFilename(filename) ==
    (IF HasSuffix(filename, ".gos") THEN SubSeq(filename, 1, Len(filename) - 4)
     ELSE filename) \o ".go"

\* the message compileFile builds from the parser's errors
RECURSIVE ErrorLines(_)
ErrorLines(errors) ==
    IF errors = <<>> THEN ""
    ELSE "  - " \o Head(errors) \o "\n" \o ErrorLines(Tail(errors))

\* a compileFile that reports no error
NoErrorf(format) == NoError

\* fmt.Errorf(format) with no arguments: a text without a percent sign is the
\* message; a percent sign starts a verb that has no operand
Errorf(format) ==
    [nil |-> FALSE,
     message |-> IF Contains(format, "%") THEN format \o "%!(NOVERB)" ELSE format]

\* compileFile after ParseProgram, when the parser has recorded errors
ReturnParsingErrors ==
    /\ phase = "parsed"
    /\ Len(parser.errors) > 0
    /\ goCode' = ""
    /\ err' = Errorf("Parsing errors:\n" \o ErrorLines(parser.errors))
    /\ phase' = "compiled"
    /\ UNCHANGED <<source, lex, tok, parser, program, outputFile, stdout, exit, runVars, indentTokens, calls>>

\* goCode := generator.Generate(program); a panic ends the process
GenerateCode ==
    /\ phase = "parsed"
    /\ Len(parser.errors) = 0
    /\ \E g \in {Call("Generate", program)} :
         /\ goCode' = IF g.panicked THEN goCode ELSE g.output
         /\ phase' = IF g.panicked THEN "crashed" ELSE "generated"
         /\ exit' = IF g.panicked THEN "status 2" ELSE exit
    /\ UNCHANGED <<source, lex, tok, parser, program, err, outputFile, stdout, runVars, indentTokens, calls>>

\* goCode = addRequiredImports(goCode); return goCode, nil
ReturnGoCode ==
    /\ phase = "generated"
    /\ goCode' = addRequiredImports(goCode)
    /\ err' = NoError
    /\ phase' = "compiled"
    /\ UNCHANGED <<source, lex, tok, parser, program, outputFile, stdout, exit, runVars, indentTokens, calls>>

\* strings.TrimSpace on the blanks and tabs of a line
RECURSIVE TrimSpace(_)
TrimSpace(s) ==
    IF s # "" /\ CharAt(s, 0) \in {" ", "\t"} THEN TrimSpace(SubSeq(s, 2, Len(s)))
    ELSE IF s # "" /\ CharAt(s, Len(s) - 1) \in {" ", "\t"}
    THEN TrimSpace(SubSeq(s, 1, Len(s) - 1))
    ELSE s

TrimPrefix(s, prefix) ==
    IF HasPrefix(s, prefix) THEN SubSeq(s, Len(prefix) + 1, Len(s)) ELSE s

\* the loop of buildFile that takes the messages out of the error text
RECURSIVE ExtractErrors(_)
ExtractErrors(lines) ==
    IF lines = <<>> THEN <<>>
    ELSE (IF TrimSpace(Head(lines)) # ""
          THEN <<TrimPrefix(TrimSpace(Head(lines)), "- ")>> ELSE <<>>)
         \o ExtractErrors(Tail(lines))

\* the lines printCompilationError prints, colour codes left out
printCompilationError(filename, errors) ==
    <<"Compilation failed: " \o filename, "">>
    \o [i \in 1..Len(errors) |-> Itoa(i) \o ". " \o errors[i]]
    \o <<"", "Hint: Check your syntax, especially indentation and colons after function definitions.">>

printError(message) == <<"Error: " \o message>>

\* the elapsed time of the message is left out
printSuccess(message) == <<"Success: " \o message>>

\* buildFile after compileFile has returned
FinishBuildFile ==
    /\ phase = "compiled"
    /\ IF ~err.nil
       THEN /\ stdout' = stdout \o
                 (IF Contains(err.message, "Parsing errors:")
                  THEN printCompilationError(
                         Filename, ExtractErrors(Tail(SplitLines(err.message))))
                  ELSE printError("compilation failed: " \o err.message))
            /\ exit' = "status 1"
            /\ phase' = "exited"
            /\ UNCHANGED outputFile
       ELSE /\ outputFile' = [exists |-> TRUE, content |-> goCode]
            /\ stdout' = stdout \o
                 printSuccess("compiled '" \o Filename \o "' to '"
                              \o OutputFilename(Filename) \o "'")
            /\ exit' = "status 0"
            /\ phase' = "built"
    /\ UNCHANGED <<source, lex, tok, parser, program, goCode, err, runVars, indentTokens, calls>>

BuildNext ==
    \/ NewParser
    \/ RunParseProgram
    \/ ReturnParsingErrors
    \/ GenerateCode
    \/ ReturnGoCode
    \/ FinishBuildFile

BuildSpec == ParserInit /\ [][BuildNext]_vars

(***************************************************************************)
(* handleIndentation, called at the beginning of each line of a source     *)
(***************************************************************************)
\* the lexer moved to the beginning of the next line
RECURSIVE SkipToNextLine(_)
SkipToNextLine(l) ==
    IF l.ch = NUL \/ l.ch = "\n" THEN readChar(l) ELSE SkipToNextLine(readChar(l))

IndentInit ==
    /\ source \in IndentedSources
    /\ lex = LexerNew(SourceText(source))
    /\ tok = NoToken
    /\ parser = NoParser
    /\ program = NoProgram
    /\ phase = "indenting"
    /\ BuildIdle
    /\ runs = [r \in Runs |-> NewRun("")]
    /\ heap = EmptyHeap
    /\ tables = PackageTables
    /\ indentTokens = <<>>
    /\ calls = <<>>

\* tokens := l.handleIndentation(), then on to the next line
CallHandleIndentation ==
    /\ phase = "indenting"
    /\ lex.position <= Len(lex.input)
    /\ \E r \in {handleIndentation(lex)} :
         /\ indentTokens' = r.tokens
         /\ lex' = SkipToNextLine(r.l)
    /\ UNCHANGED <<source, tok, parser, program, phase, buildVars, runVars, calls>>

IndentNext == CallHandleIndentation

IndentSpec == IndentInit /\ [][IndentNext]_vars

(***************************************************************************)
(* convertTimeFormat: the format strings of formatTime rewritten into Go's *)
(* reference-time layout by a table of replacements.  The table is a Go    *)
(* map, and `range` over a map visits its entries in an order that the     *)
(* language leaves unspecified and the runtime randomises on every loop.   *)
(***************************************************************************)
\* the calls of convertTimeFormat made on one format string
MaxCalls == 2

\* the table of replacements, human-readable format to Go's reference time
replacements ==
    [human \in {"YYYY", "YY", "MM", "M", "DD", "D", "HH", "H", "hh", "h",
                "mm", "m", "ss", "s", "AM", "am",
                "Mon", "Monday", "Jan", "January"} |->
        CASE human = "YYYY" -> "2006"
          [] human = "YY" -> "06"
          [] human = "MM" -> "01"
          [] human = "M" -> "1"
          [] human = "DD" -> "02"
          [] human = "D" -> "2"
          [] human = "HH" -> "15"
          [] human = "H" -> "15"
          [] human = "hh" -> "03"
          [] human = "h" -> "3"
          [] human = "mm" -> "04"
          [] human = "m" -> "4"
          [] human = "ss" -> "05"
          [] human = "s" -> "5"
          [] human = "AM" -> "PM"
          [] human = "am" -> "pm"
          [] human = "Mon" -> "Mon"
          [] human = "Monday" -> "Monday"
          [] human = "Jan" -> "Jan"
          [] human = "January" -> "January"]

\* strings.ReplaceAll(s, old, new) for a non-empty old: the non-overlapping
\* occurrences of old, found from left to right, replaced by new
RECURSIVE ReplaceAll(_, _, _)
ReplaceAll(s, old, new) ==
    IF Len(s) < Len(old) THEN s
    ELSE IF SubSeq(s, 1, Len(old)) = old
    THEN new \o ReplaceAll(SubSeq(s, Len(old) + 1, Len(s)), old, new)
    ELSE SubSeq(s, 1, 1) \o ReplaceAll(SubSeq(s, 2, Len(s)), old, new)

\* the characters of a string
Chars(s) == {SubSeq(s, i, i) : i \in 1..Len(s)}

\* the characters the replacements can write into a string of these characters
Written(chars) ==
    UNION {Chars(replacements[human]) :
             human \in {h \in DOMAIN replacements : Chars(h) \subseteq chars}}

\* the characters a string can hold at any point of the loop
RECURSIVE Reachable(_)
Reachable(chars) ==
    IF Written(chars) \subseteq chars THEN chars
    ELSE Reachable(chars \cup Written(chars))

\* The entries of the table that can find an occurrence in some iteration of
\* the loop over this format.  Every other entry leaves result as it is
\* wherever the iteration order puts it, so the loop is followed over these.
Matching(format) ==
    {human \in DOMAIN replacements : Chars(human) \subseteq Reachable(Chars(format))}

\* for human, goFmt := range replacements { result = strings.ReplaceAll(...) }
\* the results the loop can end with, one for each order of the entries
RECURSIVE RangeReplacements(_, _)
RangeReplacements(result, remaining) ==
    IF remaining = {} THEN {result}
    ELSE UNION {RangeReplacements(ReplaceAll(result, human, replacements[human]),
                                  remaining \ {human}) : human \in remaining}

\* the results convertTimeFormat(format) can return
convertTimeFormat(format) == RangeReplacements(format, Matching(format))

\* the format strings handed to convertTimeFormat
TimeFormats ==
    {"YYYY", "MM", "DD", "YYYY-MM-DD", "HH:mm:ss", "hh:mm AM", "Monday", "D Jan YY", "2006"}

TimeSources == {[form |-> "format", of |-> format] : format \in TimeFormats}

TimeInit ==
    /\ source \in TimeSources
    /\ lex = LexerNew("")
    /\ tok = NoToken
    /\ parser = NoParser
    /\ program = NoProgram
    /\ phase = "formatting"
    /\ BuildIdle
    /\ RunsIdle

\* goFormat := convertTimeFormat(formatStr)
CallConvertTimeFormat ==
    /\ phase = "formatting"
    /\ Len(calls) < MaxCalls
    /\ \E goFormat \in convertTimeFormat(source.of) :
         calls' = Append(calls, goFormat)
    /\ UNCHANGED <<source, lex, tok, parser, program, phase, buildVars, runVars, indentTokens>>

TimeNext == CallConvertTimeFormat

TimeSpec == TimeInit /\ [][TimeNext]_vars

(***************************************************************************)
(* Two runs of the pipeline side by side.  Each run executes the calls of  *)
(* compileFile in order; a step of the model is one call of one run.  The  *)
(* objects live in the heap, and a run holds their addresses.              *)
(***************************************************************************)
\* the source texts of the runs
RunInputs ==
    {"x := 1", "func f():\n    return 1\n", "a + ", "import \"os\"\nprint(x)",
     "if a:\n    y = 2\n"}

\* one address for every object of a type, as a package-level instance has
SharedAddress(objects) == 1

\* &Lexer{...}, &Parser{...}, &Generator{}: an address no object has yet
FreshAddress(objects) == Len(objects) + 1

\* the objects with obj at address a
Store(objects, a, obj) ==
    IF a > Len(objects) THEN Append(objects, obj) ELSE [objects EXCEPT ![a] = obj]

\* the parser at address a together with the lexer its field l points to
ParserAt(h, a) == [h.parsers[a] EXCEPT !.l = h.lexers[@]]

\* the heap after the parser at address a and its lexer have become p
StoreParser(h, a, p) ==
    [h EXCEPT !.lexers = Store(@, h.parsers[a].l, p.l),
              !.parsers = Store(@, a, [p EXCEPT !.l = h.parsers[a].l])]

\* l := lexer.New(string(content))
CreateLexer(r) ==
    /\ runs[r].pc = "start"
    /\ \E a \in {FreshAddress(heap.lexers)} :
         /\ heap' = [heap EXCEPT !.lexers = Store(@, a, LexerNew(runs[r].input))]
         /\ runs' = [runs EXCEPT ![r].l = a, ![r].pc = "lexer"]
    /\ UNCHANGED <<source, lex, tok, parser, program, phase, buildVars, tables, indentTokens, calls>>

\* p := parser.New(l)
CreateParser(r) ==
    /\ runs[r].pc = "lexer"
    /\ \E a \in {FreshAddress(heap.parsers)} :
       \E p \in {Call("New", heap.lexers[runs[r].l])} :
         /\ heap' = [heap EXCEPT !.lexers = Store(@, runs[r].l, p.l),
                                 !.parsers = Store(@, a, [p EXCEPT !.l = runs[r].l])]
         /\ runs' = [runs EXCEPT ![r].p = a,
                                 ![r].pc = IF p.l.panicked THEN "crashed" ELSE "parser"]
    /\ UNCHANGED <<source, lex, tok, parser, program, phase, buildVars, tables, indentTokens, calls>>

\* program := p.ParseProgram(), and the check of p.Errors() after it
ParseTheProgram(r) ==
    /\ runs[r].pc = "parser"
    /\ \E res \in {Call("ParseProgram", ParserAt(heap, runs[r].p))} :
         /\ heap' = StoreParser(heap, runs[r].p, res.p)
         /\ runs' = [runs EXCEPT ![r].program = res.node,
                                 ![r].errors = res.p.errors,
                                 ![r].pc = IF res.p.l.panicked THEN "crashed"
                                           ELSE IF Len(res.p.errors) > 0 THEN "done"
                                           ELSE "parsed"]
    /\ UNCHANGED <<source, lex, tok, parser, program, phase, buildVars, tables, indentTokens, calls>>

\* generator := codegen.New()
CreateGenerator(r) ==
    /\ runs[r].pc = "parsed"
    /\ \E a \in {FreshAddress(heap.generators)} :
         /\ heap' = [heap EXCEPT !.generators = Store(@, a, GeneratorNew)]
         /\ runs' = [runs EXCEPT ![r].g = a, ![r].pc = "generator"]
    /\ UNCHANGED <<source, lex, tok, parser, program, phase, buildVars, tables, indentTokens, calls>>

\* goCode := generator.Generate(program); Generate resets the generator first
GenerateGoCode(r) ==
    /\ runs[r].pc = "generator"
    /\ \E g \in {Call("Generate", runs[r].program)} :
         /\ heap' = [heap EXCEPT !.generators = Store(@, runs[r].g, g)]
         /\ runs' = [runs EXCEPT ![r].output = g.output,
                                 ![r].pc = IF g.panicked THEN "crashed" ELSE "done"]
    /\ UNCHANGED <<source, lex, tok, parser, program, phase, buildVars, tables, indentTokens, calls>>

ConcurrentInit ==
    /\ runs \in [Runs -> {NewRun(input) : input \in RunInputs}]
    /\ heap = EmptyHeap
    /\ tables = PackageTables
    /\ source = [form |-> "concurrent", of |-> <<>>]
    /\ lex = LexerNew("")
    /\ tok = NoToken
    /\ parser = NoParser
    /\ program = NoProgram
    /\ phase = "concurrent"
    /\ BuildIdle
    /\ indentTokens = <<>>
    /\ calls = <<>>

ConcurrentNext ==
    \E r \in Runs :
        \/ CreateLexer(r)
        \/ CreateParser(r)
        \/ ParseTheProgram(r)
        \/ CreateGenerator(r)
        \/ GenerateGoCode(r)

ConcurrentSpec == ConcurrentInit /\ [][ConcurrentNext]_vars

(***************************************************************************)
(* Properties of the lexer, checked under Spec                             *)
(***************************************************************************)
\* a byte NextToken has no token for
Unrecognized(ch) ==
    /\ ch \notin {NUL, "\"", "'", "#", " ", "\t", "\r"}
    /\ ch \notin DOMAIN OneCharOps
    /\ ~isLetter(ch)
    /\ ~isDigit(ch)

\* the cursor of l is on a quote that no later byte of the input closes
Unterminated(l) ==
    /\ l.ch \in {"\"", "'"}
    /\ \A i \in (l.position + 1)..(Len(l.input) - 1) : CharAt(l.input, i) # l.ch

\* the input after the byte at the cursor
RestOfInput(l) == SubSeq(l.input, l.position + 2, Len(l.input))

\* C1: every call of NextToken returns a token and does not crash; on an
\* unrecognized byte the token is ILLEGAL and holds that byte; on a string or
\* char literal without a closing delimiter the token is STRING or CHAR and
\* its text is the rest of the input.
C1_NextTokenNeverCrashes ==
    [][\A l \in {skipWhitespace(lex)} :
         /\ ~lex'.panicked
         /\ Unrecognized(l.ch) => (tok'.Type = "ILLEGAL" /\ tok'.Literal = l.ch)
         /\ Unterminated(l) =>
              /\ tok'.Type = (IF l.ch = "\"" THEN "STRING" ELSE "CHAR")
              /\ tok'.Literal = RestOfInput(l)]_vars

\* C2: once the cursor has passed the last byte of the input, every further
\* call of NextToken returns an EOF token with empty text, leaves the cursor
\* past the end and does not crash.
C2_EOFForever ==
    [][lex.position >= Len(lex.input) =>
         /\ tok'.Type = "EOF"
         /\ tok'.Literal = ""
         /\ ~lex'.panicked
         /\ lex'.position >= Len(lex'.input)]_vars

\* C2, reached: a non-empty input, and NextToken has returned EOF on a call
\* made with the cursor already past the end
C2_CalledPastEnd ==
    /\ Len(lex.input) > 0
    /\ lex.position >= Len(lex.input) + 2
    /\ tok.Type = "EOF"
    /\ ~lex.panicked

(***************************************************************************)
(* Properties of the parser, checked under ParserSpec.  The trees the      *)
(* documentation and the tests of the parser describe are written out      *)
(* here, independently of the parse functions.                             *)
(***************************************************************************)
Ident(name) == [kind |-> "Identifier", Value |-> name]

IntLit(value) == [kind |-> "Literal", Type |-> "int", Value |-> value]

BoolLit(value) == [kind |-> "Literal", Type |-> "bool", Value |-> value]

Binary(left, operator, right) ==
    [kind |-> "BinaryExpr", Left |-> left, Operator |-> operator, Right |-> right]

Return(value) == [kind |-> "ReturnStmt", Value |-> value]

Block(stmts) == [kind |-> "BlockStmt", Statements |-> stmts]

Param(name, type) == [kind |-> "Parameter", Name |-> name, Type |-> type]

Function(name, params, returnType, body) ==
    [kind |-> "FunctionDecl", Name |-> name, Parameters |-> params,
     ReturnType |-> returnType, Body |-> Block(body), Receiver |-> Nil]

\* the statement each line of a generated body or branch stands for
StmtOf(line) ==
    CASE line = "x := 1" -> VarDecl("x", Nil, IntLit(1), TRUE)
      [] line = "y := 2" -> VarDecl("y", Nil, IntLit(2), TRUE)
      [] line = "return a + b" -> Return(Binary(Ident("a"), "+", Ident("b")))
      [] line = "return true" -> Return(BoolLit(TRUE))

StmtsOf(lines) == [i \in 1..Len(lines) |-> StmtOf(lines[i])]

ParsedForm(form) == phase = "parsed" /\ source.form = form

\* C3: parser.New followed by ParseProgram returns, for every source, with
\* the current token EOF; a problem of the source ends up in the error list
\* and never ends the run.
C3_ParseProgramReturnsAtEOF ==
    /\ phase # "crashed"
    /\ phase = "parsed" => parser.curToken.Type = "EOF"

\* C4: k >= 1 top-level functions, each with a flat body of simple statements
\* and a blank line after it, parse to exactly k FunctionDecl statements in
\* source order, each with its name, parameters and body, and no error.
C4_EveryFunctionIsDeclared ==
    ParsedForm("functions") =>
      /\ parser.errors = <<>>
      /\ program.Statements =
           [j \in 1..Len(source.of) |->
              Function(FuncName(j),
                       <<Param("a", TypeSpec("int")), Param("b", TypeSpec("int"))>>,
                       TypeSpec("int"), StmtsOf(source.of[j]))]

\* C5: `struct S:` with n field lines and m methods parses to one StructDecl
\* named S and nothing else at top level, with the n fields and the m methods
\* in source order, every receiver of the type S, and no error.
C5_StructHoldsFieldsAndMethods ==
    ParsedForm("struct") =>
      /\ parser.errors = <<>>
      /\ Len(program.Statements) = 1
      /\ \A decl \in {program.Statements[1]} :
           /\ decl.kind = "StructDecl"
           /\ decl.Name = "S"
           /\ Len(decl.Fields) = source.of[1]
           /\ \A i \in 1..source.of[1] :
                /\ decl.Fields[i].Name = FieldName(i)
                /\ decl.Fields[i].Type = TypeSpec("int")
           /\ Len(decl.Methods) = source.of[2]
           /\ \A j \in 1..source.of[2] :
                /\ decl.Methods[j].Name = MethodName(j)
                /\ decl.Methods[j].Receiver = Param("self", TypeSpec("S"))

\* the if statement of a generated if / else or if / elif source
IfOf(d) ==
    [kind |-> "IfStmt", Condition |-> Ident("c"), ThenBranch |-> Block(StmtsOf(d[2])),
     ElseBranch |-> IF d[1] = "else" THEN Block(StmtsOf(d[3]))
                    ELSE [kind |-> "IfStmt", Condition |-> Ident("d"),
                          ThenBranch |-> Block(StmtsOf(d[3])), ElseBranch |-> Nil]]

\* C6: if / else parses, with no error, to one IfStmt whose ThenBranch holds
\* exactly the then-statements and whose ElseBranch is a block of exactly the
\* else-statements; an elif clause puts a nested IfStmt in ElseBranch.
C6_IfElseBranches ==
    ParsedForm("if") =>
      /\ parser.errors = <<>>
      /\ program.Statements = <<IfOf(source.of)>>

\* the decimal value of the digit texts the sources use
Decimal == "0" :> 0 @@ "1" :> 1 @@ "2" :> 2 @@ "3" :> 3 @@ "4" :> 4 @@ "5" :> 5
           @@ "08" :> 8 @@ "10" :> 10 @@ "010" :> 10

\* C7: `for i in range(n):` and a body parse, with no error, to one ForStmt
\* with IsRange true, RangeVar i, and as RangeExpr the call of the identifier
\* range on the integer literal n.
C7_RangeFor ==
    ParsedForm("for") =>
      /\ parser.errors = <<>>
      /\ Len(program.Statements) = 1
      /\ \A stmt \in {program.Statements[1]} :
           /\ stmt.kind = "ForStmt"
           /\ stmt.IsRange
           /\ stmt.RangeVar = "i"
           /\ stmt.RangeExpr = [kind |-> "CallExpr", Function |-> Ident("range"),
                                Arguments |-> <<IntLit(Decimal[source.of])>>]

\* the binding strength the documentation gives each binary operator:
\* equality, relational, additive, multiplicative
Level(operator) ==
    CASE operator \in {"==", "!="} -> 1
      [] operator \in {"<", ">", "<=", ">="} -> 2
      [] operator \in {"+", "-"} -> 3
      [] operator \in {"*", "/", "%", "**"} -> 4

\* an operand of a generated expression as a node
Leaf(text) == IF text \in DOMAIN Decimal THEN IntLit(Decimal[text]) ELSE Ident(text)

\* the last of the weakest operators among ops[lo..hi-1]: where a reading
\* that binds stronger operators tighter, and equal ones left to right, splits
SplitAt(ops, lo, hi) ==
    CHOOSE k \in lo..(hi - 1) :
      /\ \A j \in lo..(hi - 1) : Level(ops[k]) <= Level(ops[j])
      /\ \A j \in (k + 1)..(hi - 1) : Level(ops[k]) < Level(ops[j])

\* the tree of operands lo..hi joined by ops[lo..hi-1]
RECURSIVE TreeOf(_, _, _)
TreeOf(ops, lo, hi) ==
    IF lo = hi THEN Leaf(Operand(lo))
    ELSE Bind(SplitAt(ops, lo, hi), LAMBDA k :
           Binary(TreeOf(ops, lo, k), ops[k], TreeOf(ops, k + 1, hi)))

ExprStmt(expression) == [kind |-> "ExpressionStmt", Expression |-> expression]

\* C8: an expression of operands and binary operators of the precedence table
\* parses to the tree that binds multiplicative over additive over relational
\* over equality and equal precedence left to right; `1 + 2 * 3` parses to
\* BinaryExpr(1, +, BinaryExpr(2, *, 3)).
C8_PrecedenceAndAssociativity ==
    /\ ParsedForm("expression") =>
         /\ parser.errors = <<>>
         /\ program.Statements =
              <<ExprStmt(TreeOf(source.of, 1, Len(source.of) + 1))>>
    /\ (ParsedForm("quoted") /\ source.of = PrecedenceSource) =>
         /\ parser.errors = <<>>
         /\ program.Statements =
              <<ExprStmt(Binary(IntLit(1), "+", Binary(IntLit(2), "*", IntLit(3))))>>

\* C8, reached: an expression with a weaker operator before a stronger one
\* has been parsed into a tree
C8_ParsedMixedExpression ==
    /\ ParsedForm("expression")
    /\ source.of = <<"+", "*">>
    /\ Len(program.Statements) = 1
    /\ program.Statements[1].Expression.kind = "BinaryExpr"

\* C9: `func add(x int, y int) int:` and the line `return x + y` parse, with
\* no error, to exactly one FunctionDecl add with the parameters x and y of
\* type int in order, the return type int, no receiver, and a body of one
\* ReturnStmt whose value is BinaryExpr(x, +, y).
C9_AddFunction ==
    (ParsedForm("quoted") /\ source.of = AddSource) =>
      /\ parser.errors = <<>>
      /\ program.Statements =
           <<Function("add",
                      <<Param("x", TypeSpec("int")), Param("y", TypeSpec("int"))>>,
                      TypeSpec("int"),
                      <<Return(Binary(Ident("x"), "+", Ident("y")))>>)>>

\* C9, reached: the source of add has been parsed into a function declaration
C9_ParsedAdd ==
    /\ ParsedForm("quoted")
    /\ source.of = AddSource
    /\ Len(program.Statements) = 1
    /\ program.Statements[1].kind = "FunctionDecl"

\* the literal a text of the variable sources denotes
LiteralOf(text) ==
    CASE text \in DOMAIN Decimal -> IntLit(Decimal[text])
      [] text = "3.14" -> [kind |-> "Literal", Type |-> "float", Value |-> "3.14"]
      [] text = "\"hello\"" -> [kind |-> "Literal", Type |-> "string", Value |-> "hello"]
      [] text \in {"true", "false"} -> BoolLit(text = "true")
      [] text = "nil" -> [kind |-> "Literal", Type |-> "nil", Value |-> Nil]

\* C10: `name := literal` parses to exactly one VarDecl with that name, no
\* type, IsWalrus true and the literal as value, and `name = literal` to the
\* same with IsWalrus false; no error is recorded and no ExpressionStmt made.
C10_WalrusAndAssignment ==
    ParsedForm("variable") =>
      /\ parser.errors = <<>>
      /\ Len(program.Statements) = 1
      /\ \A stmt \in {program.Statements[1]} :
           /\ stmt.kind = "VarDecl"
           /\ stmt.Name = source.of[1]
           /\ stmt.Type = Nil
           /\ stmt.IsWalrus = (source.of[2] = ":=")
           /\ stmt.Value.kind = "Literal"
           /\ stmt.Value.Type = LiteralOf(source.of[3]).Type
           /\ stmt.Value = LiteralOf(source.of[3])

\* the ImportDecl a documented import form stands for
ImportOf(d) ==
    CASE d[1] = "plain" -> [ImportDecl EXCEPT !.Path = d[2][1]]
      [] d[1] = "alias" -> [ImportDecl EXCEPT !.Path = d[2][1], !.Alias = d[3][1]]
      [] d[1] = "list" -> [ImportDecl EXCEPT !.Items = d[2]]
      [] d[1] = "from" -> [ImportDecl EXCEPT !.Path = d[2][1], !.Items = d[3]]

\* an ImportDecl with the quotes around its path and its items taken off
Unquoted(decl) ==
    [decl EXCEPT !.Path = TrimQuotes(@),
                 !.Items = [i \in DOMAIN @ |-> TrimQuotes(@[i])]]

\* C11: an import declaration in a documented form (plain, with an alias, a
\* parenthesized list, from-import) parses to exactly one ImportDecl in
\* Program.Imports with its path, alias or items, with no error recorded and
\* no entry in Program.Statements.
C11_ImportForms ==
    ParsedForm("import") =>
        /\ Len(program.Imports) = 1
        /\ Unquoted(program.Imports[1]) = ImportOf(source.of)
        /\ parser.errors = <<>>
        /\ program.Statements = <<>>

\* the two-character operators of the language
TwoCharOperators ==
    {":=", "**", "==", "!=", "<=", ">=", "+=", "-=", "*=", "/=", "%=", "++", "--",
     "->", "<-", "<<", ">>", "&^"}

\* the two characters of the input at the cursor of the lexer
AtCursor(l) == Slice(l.input, l.position, l.position + 2)

\* C12: whenever the input at the cursor starts with a two-character
\* operator, NextToken returns that operator as one two-character token and
\* moves the cursor past both characters; it never returns the token of the
\* first character alone.
C12_MaximalMunch ==
    [][AtCursor(lex) \in TwoCharOperators =>
          /\ tok'.Literal = AtCursor(lex)
          /\ tok'.Type = TwoCharOps[AtCursor(lex)]
          /\ tok'.Type \notin {OneCharOps[c] : c \in DOMAIN OneCharOps}
          /\ lex'.position = lex.position + 2]_vars

\* `a:=` has been lexed up to the walrus operator
C12_LexedWalrus ==
    /\ source.form = "operators"
    /\ tok.Type = "WALRUS"
    /\ tok.Literal = ":="
    /\ tok.Position = 1

\* the cursor is where the word of a word source begins, blanks apart
AtWord(l) ==
    /\ source.form = "word"
    /\ phase = "lexing"
    /\ skipWhitespace(l).position = Len(source.of[1])

C14_NumberVerbatim ==
    [][source.form = "number" /\ lex.position = 0 =>
          /\ tok'.Literal = SourceText(source)
          /\ tok'.Type = IF source.of[2] = "" /\ source.of[3] = "" THEN "INT" ELSE "FLOAT"
          /\ tok'.Position = 0
          /\ lex'.position = Len(lex.input)]_vars

\* `42.14E-3` has been lexed as one FLOAT token
C14_LexedSignedExponent ==
    /\ source = [form |-> "number", of |-> <<"42", ".14", "E-3">>]
    /\ tok.Type = "FLOAT"
    /\ tok.Literal = "42.14E-3"

(***************************************************************************)
(* Properties of the build, checked under BuildSpec and FairBuildSpec      *)
(***************************************************************************)
\* the node a key or a value of a map source stands for
MapOperand(text) ==
    IF text \in DOMAIN Decimal THEN IntLit(Decimal[text])
    ELSE IF HasPrefix(text, "\"")
    THEN [kind |-> "Literal", Type |-> "string", Value |-> TrimQuotes(text)]
    ELSE Ident(text)

\* the line the generator writes for a map source: the pairs as written, in
\* the order written
MapLine(d) ==
    "m := map[interface{}]interface{}{"
    \o Text(CommaSeparated([i \in 1..Len(d) |-> d[i][1] \o ": " \o d[i][2]])) \o "}"

\* C15: for a map literal with the pairs k1: v1, ..., kn: vn, MapLiteral.Pairs
\* holds the pairs in source order, and the generated text lists the rendered
\* pairs in that same order.
C15_MapPairOrder ==
    source.form = "map" /\ phase \in {"parsed", "generated", "compiled", "built", "exited"} =>
        /\ parser.errors = <<>>
        /\ Len(program.Statements) = 1
        /\ program.Statements[1].Value.kind = "MapLiteral"
        /\ program.Statements[1].Value.Pairs =
             [i \in 1..Len(source.of) |->
                [Key |-> MapOperand(source.of[i][1]), Value |-> MapOperand(source.of[i][2])]]
        /\ phase = "generated" => goCode = "package main\n\n" \o MapLine(source.of) \o "\n"
        /\ phase \in {"compiled", "built"} => Contains(goCode, MapLine(source.of) \o "\n")
        /\ phase # "exited"

\* `m := {"a": 1, "b": 2}` has been generated, a before b
C15_GeneratedTwoPairs ==
    /\ source = [form |-> "map", of |-> <<<<"\"a\"", "1">>, <<"\"b\"", "2">>>>]
    /\ phase = "generated"
    /\ Contains(goCode, "{\"a\": 1, \"b\": 2}")

\* the numbered entries among the printed lines
NumberedEntries == SelectSeq(stdout, LAMBDA line : line # "" /\ isDigit(CharAt(line, 0)))

\* what the build has done so far is what the error list asks for; it ends
\* only by exiting after the errors or with the output file written
C16_BuildSoFar ==
    /\ phase \in {"compiled", "exited", "built"} =>
          /\ err.nil = (parser.errors = <<>>)
          /\ parser.errors # <<>> => goCode = ""
    /\ outputFile.exists => parser.errors = <<>> /\ outputFile.content = goCode
    /\ phase = "exited" =>
          /\ parser.errors # <<>>
          /\ exit = "status 1"
          /\ NumberedEntries =
               [i \in 1..Len(parser.errors) |-> Itoa(i) \o ". " \o parser.errors[i]]
    /\ phase = "built" => outputFile.exists /\ exit = "status 0"
    /\ phase = "crashed" => program = NoProgram

\* where a step of the build goes: errors lead to the error return and to the
\* exit, none to the generator and to the written file
C16_BuildStep ==
    /\ phase = "parsed" /\ parser.errors # <<>> =>
          phase' = "compiled" /\ ~err'.nil /\ goCode' = "" /\ ~outputFile'.exists
    /\ phase = "parsed" /\ parser.errors = <<>> => phase' \in {"generated", "crashed"}
    /\ phase = "generated" => phase' = "compiled" /\ err'.nil
    /\ phase = "compiled" /\ ~err.nil =>
          /\ phase' = "exited" /\ exit' = "status 1" /\ outputFile' = outputFile
          /\ Len(stdout') = Len(stdout) + Len(parser.errors) + 4
    /\ phase = "compiled" /\ err.nil =>
          phase' = "built" /\ outputFile' = [exists |-> TRUE, content |-> goCode]

RECURSIVE WellFormed(_)
WellFormed(stmt) ==
    CASE stmt.kind \in {"nil", "typednil"} -> FALSE
      [] stmt.kind = "VarDecl" -> ~isNil(stmt.Value)
      [] stmt.kind = "ExpressionStmt" -> ~isNil(stmt.Expression)
      [] stmt.kind = "IfStmt" ->
           /\ ~isNil(stmt.Condition)
           /\ WellFormed(stmt.ThenBranch)
           /\ isNil(stmt.ElseBranch) \/ WellFormed(stmt.ElseBranch)
      [] stmt.kind = "WhileStmt" -> ~isNil(stmt.Condition) /\ WellFormed(stmt.Body)
      [] stmt.kind = "ForStmt" -> WellFormed(stmt.Body)
      [] stmt.kind = "FunctionDecl" -> WellFormed(stmt.Body)
      [] stmt.kind = "StructDecl" ->
           \A j \in 1..Len(stmt.Methods) : WellFormed(stmt.Methods[j])
      [] stmt.kind = "BlockStmt" ->
           \A j \in 1..Len(stmt.Statements) : WellFormed(stmt.Statements[j])
      [] OTHER -> TRUE

\* C18: when ParseProgram returns with an empty error list, the package name
\* is not empty, every entry of every statement list is a non-nil node, and
\* every node has its required children (a VarDecl its value, an
\* ExpressionStmt its expression, an IfStmt and a WhileStmt a condition and a
\* body, a FunctionDecl a body).
C18_WellFormedOnNoErrors ==
    phase = "parsed" /\ program # NoProgram /\ parser.errors = <<>> =>
        /\ program.Package # ""
        /\ \A i \in 1..Len(program.Statements) : WellFormed(program.Statements[i])

(***************************************************************************)
(* C20: and, or                                                            *)
(***************************************************************************)
\* C20: `a and b` and `a or b` parse with no error into one
\* BinaryExpr(a, and|or, b), which is the expression of the statement or,
\* in `if a and b:`, the condition of the IfStmt.
C20_LogicalOperators ==
    ParsedForm("logical") =>
        /\ parser.errors = <<>>
        /\ Len(program.Statements) = 1
        /\ IF source.of[1] = "if"
           THEN /\ program.Statements[1].kind = "IfStmt"
                /\ program.Statements[1].Condition =
                     Binary(Ident("a"), source.of[2], Ident("b"))
           ELSE program.Statements[1] =
                  ExprStmt(Binary(Ident("a"), source.of[2], Ident("b")))
(***************************************************************************)
(* C19: the line and the column of a token                                 *)
(***************************************************************************)
\* the offset of the first character of the next lexeme: the blanks, tabs
\* and carriage returns from pos on are not part of it
RECURSIVE LexemeStart(_, _)
LexemeStart(input, pos) ==
    IF pos < Len(input) /\ CharAt(input, pos) \in {" ", "\t", "\r"}
    THEN LexemeStart(input, pos + 1)
    ELSE pos

\* the offsets before pos that hold a newline
NewlinesBefore(input, pos) == {i \in 0..(pos - 1) : CharAt(input, i) = "\n"}

\* the 1-based line of the character at offset pos
LineAt(input, pos) == 1 + Cardinality(NewlinesBefore(input, pos))

\* the offset at which the line of the character at offset pos begins
RECURSIVE LineStart(_, _)
LineStart(input, pos) ==
    IF pos = 0 \/ CharAt(input, pos - 1) = "\n" THEN pos
    ELSE LineStart(input, pos - 1)

\* the 1-based column of the character at offset pos
ColumnAt(input, pos) == pos - LineStart(input, pos) + 1

\* a call of NextToken that returns a token other than end-of-input
C19_ReturnsLexeme == tok' # NoToken /\ tok'.Type # "EOF" /\ lex' # lex

\* C19: the Line and Column of every token NextToken returns are the
\* 1-based line and column of the first character of its lexeme, so Column
\* is at least 1, also when a newline or the end of input follows the lexeme.
C19_LineAndColumn ==
    [][C19_ReturnsLexeme =>
         /\ tok'.Line = LineAt(lex.input, LexemeStart(lex.input, lex.position))
         /\ tok'.Column = ColumnAt(lex.input, LexemeStart(lex.input, lex.position))
         /\ tok'.Column >= 1]_vars
(***************************************************************************)
(* C17: two runs side by side                                              *)
(***************************************************************************)
\* what a run on input produces when nothing else runs
Alone(input) ==
    Bind(Call("ParseProgram", Call("New", LexerNew(input))), LAMBDA res :
      [program |-> res.node, errors |-> res.p.errors,
       output |-> IF res.p.errors = <<>> THEN Call("Generate", res.node).output
                  ELSE ""])

\* the objects a run holds the addresses of
Owned(h, run) ==
    <<IF run.l = 0 THEN Nil ELSE h.lexers[run.l],
      IF run.p = 0 THEN Nil ELSE h.parsers[run.p],
      IF run.g = 0 THEN Nil ELSE h.generators[run.g]>>

\* the tables are as they were, no object belongs to both runs, and a run
\* that is done has the AST, the errors and the output of the run alone
C17_RunsSoFar ==
    /\ tables = PackageTables
    /\ \A r \in Runs : \A q \in Runs \ {r} :
         /\ runs[r].l # 0 => runs[r].l # runs[q].l
         /\ runs[r].p # 0 => runs[r].p # runs[q].p
         /\ runs[r].g # 0 => runs[r].g # runs[q].g
    /\ \A r \in Runs :
         runs[r].pc = "done" =>
           /\ runs[r].program = Alone(runs[r].input).program
           /\ runs[r].errors = Alone(runs[r].input).errors
           /\ runs[r].output = Alone(runs[r].input).output

\* a step leaves the tables and the objects of the run that did not take it
\* as they are
C17_RunStep ==
    /\ tables' = tables
    /\ \A r \in Runs : runs'[r] = runs[r] => Owned(heap', runs[r]) = Owned(heap, runs[r])

RECURSIVE LineEnd(_, _)
LineEnd(input, pos) ==
    IF pos >= Len(input) \/ CharAt(input, pos) = "\n" THEN pos
    ELSE LineEnd(input, pos + 1)

\* the next lexeme of the lexer begins with #
AtComment(l) ==
    /\ LexemeStart(l.input, l.position) < Len(l.input)
    /\ CharAt(l.input, LexemeStart(l.input, l.position)) = "#"

\* the call of NextToken on a comment, and the call after it
C21_CommentStep ==
    /\ AtComment(lex) =>
          /\ tok'.Type = "COMMENT"
          /\ tok'.Literal = Slice(lex.input, LexemeStart(lex.input, lex.position),
                                  LineEnd(lex.input, lex.position))
          /\ lex'.position = LineEnd(lex.input, lex.position)
          /\ lex'.ch = IF lex'.position < Len(lex.input) THEN "\n" ELSE NUL
    /\ tok.Type = "COMMENT" =>
          tok'.Type = IF lex.position < Len(lex.input) THEN "NEWLINE" ELSE "EOF"

C22_NoCommentToken == source.form = "comment" => tok.Type # "COMMENT"
(***************************************************************************)
(* C23: expressions and newlines                                           *)
(***************************************************************************)
\* the parser and the program of a parse of text
Parsed(text) == Call("ParseProgram", Call("New", LexerNew(text)))

\* the expression statement on one line, and its first line alone
OnOneLine(d) == Text(Spaced(d[1], 1, Len(d[1])))

FirstLine(d) == Text(Spaced(d[1], 1, d[2]))

C24_ImportPathsResolved ==
    ParsedForm("aliased") =>
        /\ Len(program.Imports) = 1
        /\ IF source.of[1] = "list"
           THEN Unquoted(program.Imports[1]).Items =
                  [i \in 1..Len(source.of[2]) |-> GetRealPackagePath(source.of[2][i])]
           ELSE Unquoted(program.Imports[1]).Path = GetRealPackagePath(source.of[2][1])
(***************************************************************************)
(* C25: the indentation stack                                              *)
(***************************************************************************)
\* the width of an indentation: a tab counts as four blanks
RECURSIVE Width(_)
Width(indent) ==
    IF indent = "" THEN 0
    ELSE (IF CharAt(indent, 0) = "\t" THEN 4 ELSE 1) + Width(SubSeq(indent, 2, Len(indent)))

\* the indentation of the line the lexer is at; 0 past the last line
LineWidth(l) == IF l.line <= Len(source.of) THEN Width(source.of[l.line][1]) ELSE 0

\* the stack is not empty, its bottom is 0, and it increases strictly
C25_StackShape ==
    /\ Len(lex.indentStack) >= 1
    /\ lex.indentStack[1] = 0
    /\ \A i \in 1..(Len(lex.indentStack) - 1) : lex.indentStack[i] < lex.indentStack[i + 1]

\* a call pushes at most once, and only an indentation above the top; a call
\* that pops returns one DEDENT for each level popped
C25_Call ==
    /\ Len(lex'.indentStack) <= Len(lex.indentStack) + 1
    /\ Len(lex'.indentStack) > Len(lex.indentStack) =>
          /\ LineWidth(lex) > lex.indentStack[Len(lex.indentStack)]
          /\ lex'.indentStack = Append(lex.indentStack, LineWidth(lex))
          /\ Len(indentTokens') = 1 /\ indentTokens'[1].Type = "INDENT"
    /\ Len(lex'.indentStack) < Len(lex.indentStack) =>
          /\ lex'.indentStack = SubSeq(lex.indentStack, 1, Len(lex'.indentStack))
          /\ Len(indentTokens') = Len(lex.indentStack) - Len(lex'.indentStack)
          /\ \A i \in 1..Len(indentTokens') : indentTokens'[i].Type = "DEDENT"
    /\ Len(lex'.indentStack) = Len(lex.indentStack) =>
          lex'.indentStack = lex.indentStack /\ indentTokens' = <<>>

\* C25: after any sequence of handleIndentation calls the indentation stack
\* is non-empty, has 0 at its bottom and increases strictly from bottom to
\* top; a call pushes at most once and only when the line's indentation
\* exceeds the top, and a call that pops returns one DEDENT token for each
\* level it pops.
C25_IndentationStack ==
    /\ []C25_StackShape
    /\ [][C25_Call]_vars

\* two levels were pushed and the last call popped both
C25_PoppedTwoLevels ==
    /\ phase = "indenting"
    /\ lex.line >= 4
    /\ lex.indentStack = <<0>>
    /\ Len(indentTokens) = 2
(***************************************************************************)
(* C26, C29: the for loops and the assignments of the generated code       *)
(***************************************************************************)
\* the header a range-style loop stands for: a counting loop for range(n),
\* the native range loop otherwise
LoopHeader(d) ==
    IF d[3] = "range" /\ d[4] # ""
    THEN "for " \o d[2] \o " := 0; " \o d[2] \o " < " \o d[4] \o "; " \o d[2] \o "++ {"
    ELSE "for " \o d[2] \o " := range " \o RangeText(d) \o " {"

\* the Go code of a loop source has been generated
GeneratedLoop(style) ==
    phase = "generated" /\ source.form = "loop" /\ source.of[1] = style

\* C26: for a range-style ForStmt the generator writes exactly one header
\* line before the body, the counting loop `for v := 0; v < n; v++ {` for
\* range(n) and `for v := range e {` otherwise, so that the `}` of the loop
\* closes the `{` of its header.
C26_OneLoopHeader ==
    GeneratedLoop("range") =>
        SplitLines(goCode) =
          <<"package main", "", LoopHeader(source.of), "\ty = 1", "}", "">>

\* C29: a VarDecl with no declared type and IsWalrus false is generated as
\* `name = value`, never as `name := value`, as a statement of its own and
\* as the init or the update clause of a three-clause for loop.
C29_AssignmentStaysAssignment ==
    /\ phase = "generated" /\ source.form = "variable" /\ source.of[2] = "=" =>
          HasPrefix(SplitLines(goCode)[3], source.of[1] \o " = ")
    /\ GeneratedLoop("clauses") =>
          /\ source.of[2] = "i = 0" => HasPrefix(SplitLines(goCode)[3], "for i = 0; ")
          /\ source.of[4] = "i = i + 1" =>
                HasSuffix(SplitLines(goCode)[3], "; i = (i + 1) {")
(***************************************************************************)
(* C28: integer literals                                                   *)
(***************************************************************************)
\* C28: an INT token is read as a decimal number: for a text of decimal
\* digits, leading zeros included, parseIntegerLiteral records no error and
\* produces a Literal tagged int with the base-10 value of the text.
C28_IntegersAreDecimal ==
    ParsedForm("variable") /\ source.of[3] \in DOMAIN Decimal =>
        /\ parser.errors = <<>>
        /\ Len(program.Statements) = 1
        /\ program.Statements[1].Value = IntLit(Decimal[source.of[3]])
(***************************************************************************)
(* C27: the import lines of the generated code                             *)
(***************************************************************************)
\* the number of double quotes in a line
QuoteCount(line) == Cardinality({i \in 1..Len(line) : SubSeq(line, i, i) = "\""})

\* the lines of the import block: those after `import (` up to its `)`
RECURSIVE ImportLines(_)
ImportLines(lines) ==
    IF lines = <<>> \/ Head(lines) = ")" THEN <<>>
    ELSE <<Head(lines)>> \o ImportLines(Tail(lines))

\* the text of a line from its first double quote to its last
RECURSIVE FromQuoteToQuote(_)
FromQuoteToQuote(line) ==
    IF line = "" THEN ""
    ELSE IF CharAt(line, 0) # "\"" THEN FromQuoteToQuote(SubSeq(line, 2, Len(line)))
    ELSE IF CharAt(line, Len(line) - 1) # "\""
    THEN FromQuoteToQuote(SubSeq(line, 1, Len(line) - 1))
    ELSE line

\* C27: every import line the generator writes holds the import path in
\* exactly one pair of double quotes, whether the ImportDecl stores the path
\* quoted or unquoted, with or without an alias or an item list.
C27_ImportPathQuotedOnce ==
    phase = "generated" /\ source.form = "aliased" =>
        /\ SplitLines(goCode)[3] = "import ("
        /\ Len(ImportLines(SubSeq(SplitLines(goCode), 4, Len(SplitLines(goCode))))) =
             Len(source.of[2])
        /\ \A i \in 1..Len(source.of[2]) :
             /\ QuoteCount(SplitLines(goCode)[3 + i]) = 2
             /\ FromQuoteToQuote(SplitLines(goCode)[3 + i]) =
                  QuotedText(TrimQuotes(program.Imports[1].Path \o
                       (IF source.of[1] = "list" THEN program.Imports[1].Items[i] ELSE "")))
(***************************************************************************)
(* C30: convertTimeFormat                                                  *)
(***************************************************************************)
\* C30: convertTimeFormat is deterministic: the calls made on one format
\* string all return the same result, whatever order the entries of the
\* replacement table are applied in; `YYYY` always becomes `2006` and `MM`
\* always becomes `01`.
C30_ConvertTimeFormatDeterministic ==
    phase = "formatting" =>
        /\ \A i, j \in 1..Len(calls) : calls[i] = calls[j]
        /\ source.of = "YYYY" => \A i \in 1..Len(calls) : calls[i] = "2006"
        /\ source.of = "MM" => \A i \in 1..Len(calls) : calls[i] = "01"
====
